---------------------------- MODULE Spec2Model ----------------------------
(***************************************************************************)
(* Form-validation module of the landing page (src/unnamed/part_000,       *)
(* lines 1-424): the pure rule engine validateField, and the DOM           *)
(* orchestration around it (showError / clearError, validateForm,          *)
(* handleFormSubmit, displaySuccessMessage, debounce, the listeners that   *)
(* initFormValidation attaches).                                           *)
(*                                                                         *)
(* A JavaScript string is modelled as a sequence of characters, each       *)
(* character being a one-character TLA+ string, so that trim(), the        *)
(* regular expressions and .length are computed and not assumed.           *)
(***************************************************************************)
EXTENDS Integers, Sequences, FiniteSets, TLC

VARIABLES
    vfField,        \* argument `field` of a direct validateField call: [value, type]
    vfRules,        \* argument `rules` of that call
    vfResult,       \* what the call returned; <<>> before the call
    form,           \* the #contact-form: its input/select/textarea elements in document order
    dom,            \* mutable DOM state of the form's fields and containers, and document.activeElement
    timeout,        \* per field: the `timeout` handle of its debounce closure is a pending timer
    successMessage, \* the '.success-message' element of the form's parent, <<>> when absent
    resetTimers,    \* pending setTimeout callbacks of displaySuccessMessage, oldest first
    lastEvent,      \* history: the last handler that ran and what it returned / did
    clock,          \* the time in ms and the due times of the debounce timers (timed specification)
    page,           \* what initFormValidation finds and leaves: the form's id, listeners, console
    fieldRules,     \* the rule sets the properties of FIELD_RULES refer to, as they are now
    nav,            \* navigation module: its `state`, the DOM it writes, its timers and animations
    throttled,      \* the closure of one throttle(func, delay) wrapper and the calls func got
    lazy            \* performance module: lazyLoadState, the observer and the lazy images

vars == <<vfField, vfRules, vfResult, form, dom, timeout, successMessage, resetTimers, lastEvent,
          clock, page, fieldRules, nav, throttled, lazy>>

\* the variables of the navigation and performance modules, which no step of
\* the form-validation module writes
otherModules == <<nav, throttled, lazy>>

\* the variables of the form-validation module
formVars == <<vfField, vfRules, vfResult, form, dom, timeout, successMessage, resetTimers,
              lastEvent, clock, page, fieldRules>>

-----------------------------------------------------------------------------
(* Characters and strings *)

Lower == {"a","b","c","d","e","f","g","h","i","j","k","l","m",
          "n","o","p","q","r","s","t","u","v","w","x","y","z"}
Upper == {"A","B","C","D","E","F","G","H","I","J","K","L","M",
          "N","O","P","Q","R","S","T","U","V","W","X","Y","Z"}
Digit == {"0","1","2","3","4","5","6","7","8","9"}
AlphaNum == Lower \cup Upper \cup Digit

\* what String.prototype.trim() strips and what \s matches; a character that
\* TLA+ cannot write in a string is named: TAB, LF, BACKTICK, QUOTE, and the
\* accented letters E-ACUTE and I-ACUTE
WhiteSpace == {" ", "TAB", "LF"}

\* letters outside a-z and A-Z
AccentedLetters == {"E-ACUTE", "I-ACUTE"}

Min(S) == CHOOSE x \in S : \A y \in S : x <= y
Max(S) == CHOOSE x \in S : \A y \in S : x >= y

\* value.trim()
trim(s) ==
    LET keep == {i \in 1..Len(s) : s[i] \notin WhiteSpace}
    IN  IF keep = {} THEN <<>> ELSE SubSeq(s, Min(keep), Max(keep))

IsDigit(c) == c \in Digit

\* value.replace(/\D/g, '')
stripNonDigits(s) == SelectSeq(s, IsDigit)

\* n copies of character c
Repeat(c, n) == [i \in 1..n |-> c]

-----------------------------------------------------------------------------
(* VALIDATION_PATTERNS: RegExp.prototype.test of each pattern *)

\* [a-zA-Z\s\-'\.]
NameClass == Lower \cup Upper \cup WhiteSpace \cup {"-", "'", "."}
\* [\d\s\-\(\)\+\.]
PhoneClass == Digit \cup WhiteSpace \cup {"-", "(", ")", "+", "."}
\* [a-zA-Z0-9.!#$%&'*+/=?^_`{|}~-]
EmailLocalClass == AlphaNum \cup {".", "!", "#", "$", "%", "&", "'", "*", "+", "/",
                                  "=", "?", "^", "_", "BACKTICK", "{", "|", "}", "~", "-"}

AllIn(s, class) == Len(s) >= 1 /\ \A i \in 1..Len(s) : s[i] \in class

\* [a-zA-Z0-9](?:[a-zA-Z0-9-]{0,61}[a-zA-Z0-9])?
IsDomainLabel(l) ==
    /\ Len(l) >= 1
    /\ Len(l) <= 63
    /\ l[1] \in AlphaNum
    /\ l[Len(l)] \in AlphaNum
    /\ \A i \in 1..Len(l) : l[i] \in AlphaNum \cup {"-"}

\* label(?:\.label)* : the dots cut the domain into labels, none of them empty
IsDomain(d) ==
    LET dots == {i \in 1..Len(d) : d[i] = "."}
        cuts == dots \cup {0, Len(d) + 1}
    IN  \A a \in cuts : a <= Len(d) =>
            LET b == Min({c \in cuts : c > a})
            IN  IsDomainLabel(SubSeq(d, a + 1, b - 1))

\* /^local+@domain$/ : neither class holds "@", so the string has exactly one
TestEMAIL(s) ==
    LET ats == {i \in 1..Len(s) : s[i] = "@"}
    IN  /\ Cardinality(ats) = 1
        /\ LET p == Min(ats)
           IN  /\ AllIn(SubSeq(s, 1, p - 1), EmailLocalClass)
               /\ IsDomain(SubSeq(s, p + 1, Len(s)))

TestPHONE(s) == AllIn(s, PhoneClass)
\* mutant: the class of the pattern has the digits too
TestNAMEWithDigits(s) == AllIn(s, NameClass \cup Digit)

TestNAME(s) == AllIn(s, NameClass)

\* pattern.test(value), a pattern being named by its key in VALIDATION_PATTERNS
PatternTest(pattern, s) ==
    CASE pattern = "EMAIL" -> TestEMAIL(s)
      [] pattern = "PHONE" -> TestPHONE(s)
      [] pattern = "NAME"  -> TestNAME(s)

-----------------------------------------------------------------------------
(* ERROR_MESSAGES and FIELD_RULES.  An absent key of a rule set (undefined in *)
(* JavaScript) is a key absent from the record's DOMAIN.                      *)

ERROR_MESSAGES ==
    [ REQUIRED          |-> "This field is required",
      EMAIL_INVALID     |-> "Please enter a valid email address",
      PHONE_INVALID     |-> "Please enter a valid phone number",
      NAME_INVALID      |-> "Please enter a valid name (letters, spaces, hyphens, and apostrophes only)",
      MESSAGE_TOO_SHORT |-> "Message must be at least 10 characters long",
      PHONE_TOO_SHORT   |-> "Phone number must be at least 10 digits",
      PHONE_TOO_LONG    |-> "Phone number must not exceed 20 digits" ]

\* mutant: the message rule set has no message for its maxLength
FIELD_RULESWithoutMaxLengthMessage ==
    [ name |->
        [ required |-> TRUE, pattern |-> "NAME", minLength |-> 2, maxLength |-> 100,
          errorMessages |->
            [ required  |-> ERROR_MESSAGES.REQUIRED,
              pattern   |-> ERROR_MESSAGES.NAME_INVALID,
              minLength |-> "Name must be at least 2 characters long",
              maxLength |-> "Name must not exceed 100 characters" ] ],
      email |->
        [ required |-> TRUE, pattern |-> "EMAIL", maxLength |-> 254,
          errorMessages |->
            [ required  |-> ERROR_MESSAGES.REQUIRED,
              pattern   |-> ERROR_MESSAGES.EMAIL_INVALID,
              maxLength |-> "Email must not exceed 254 characters" ] ],
      phone |->
        [ required |-> TRUE, pattern |-> "PHONE", minLength |-> 10, maxLength |-> 20,
          errorMessages |->
            [ required  |-> ERROR_MESSAGES.REQUIRED,
              pattern   |-> ERROR_MESSAGES.PHONE_INVALID,
              minLength |-> ERROR_MESSAGES.PHONE_TOO_SHORT,
              maxLength |-> ERROR_MESSAGES.PHONE_TOO_LONG ] ],
      service |->
        [ required |-> TRUE,
          errorMessages |-> [ required |-> ERROR_MESSAGES.REQUIRED ] ],
      message |->
        [ required |-> TRUE, minLength |-> 10, maxLength |-> 1000,
          errorMessages |->
            [ required  |-> ERROR_MESSAGES.REQUIRED,
              minLength |-> ERROR_MESSAGES.MESSAGE_TOO_SHORT ] ] ]

FIELD_RULES ==
    [ name |->
        [ required |-> TRUE, pattern |-> "NAME", minLength |-> 2, maxLength |-> 100,
          errorMessages |->
            [ required  |-> ERROR_MESSAGES.REQUIRED,
              pattern   |-> ERROR_MESSAGES.NAME_INVALID,
              minLength |-> "Name must be at least 2 characters long",
              maxLength |-> "Name must not exceed 100 characters" ] ],
      email |->
        [ required |-> TRUE, pattern |-> "EMAIL", maxLength |-> 254,
          errorMessages |->
            [ required  |-> ERROR_MESSAGES.REQUIRED,
              pattern   |-> ERROR_MESSAGES.EMAIL_INVALID,
              maxLength |-> "Email must not exceed 254 characters" ] ],
      phone |->
        [ required |-> TRUE, pattern |-> "PHONE", minLength |-> 10, maxLength |-> 20,
          errorMessages |->
            [ required  |-> ERROR_MESSAGES.REQUIRED,
              pattern   |-> ERROR_MESSAGES.PHONE_INVALID,
              minLength |-> ERROR_MESSAGES.PHONE_TOO_SHORT,
              maxLength |-> ERROR_MESSAGES.PHONE_TOO_LONG ] ],
      service |->
        [ required |-> TRUE,
          errorMessages |-> [ required |-> ERROR_MESSAGES.REQUIRED ] ],
      message |->
        [ required |-> TRUE, minLength |-> 10, maxLength |-> 1000,
          errorMessages |->
            [ required  |-> ERROR_MESSAGES.REQUIRED,
              minLength |-> ERROR_MESSAGES.MESSAGE_TOO_SHORT,
              maxLength |-> "Message must not exceed 1000 characters" ] ] ]

\* obj[key] !== undefined
Has(obj, key) == key \in DOMAIN obj

\* the JavaScript values null and undefined
Null == "null"
Undefined == "undefined"

\* mutant: only the 'required' message is found
MessageRequiredOnly(rules, kind) ==
    IF kind = "required" /\ Has(rules.errorMessages, kind) THEN rules.errorMessages[kind] ELSE Undefined

\* rules.errorMessages[kind]
Message(rules, kind) ==
    IF Has(rules.errorMessages, kind) THEN rules.errorMessages[kind] ELSE Undefined

-----------------------------------------------------------------------------
(* validateField *)

Fail(msg) == [isValid |-> FALSE, error |-> msg]
Pass == [isValid |-> TRUE, error |-> Null]

\* rules.required is truthy
IsRequired(rules) == Has(rules, "required") /\ rules.required

\* mutant: the digit count is not used for 'tel' controls
effectiveLengthNoTel(fieldType, value) == Len(value)

\* fieldType === 'tel' ? value.replace(/\D/g, '').length : value.length
effectiveLength(fieldType, value) ==
    IF fieldType = "tel" THEN Len(stripNonDigits(value)) ELSE Len(value)

\* mutant: the length bounds are exclusive
validateFieldExclusiveBounds(field, rules) ==
    LET value == trim(field.value)
        length == effectiveLength(field.type, value)
    IN  IF IsRequired(rules) /\ value = <<>> THEN Fail(Message(rules, "required"))
        ELSE IF value = <<>> /\ ~IsRequired(rules) THEN Pass
        ELSE IF Has(rules, "pattern") /\ ~PatternTest(rules.pattern, value)
            THEN Fail(Message(rules, "pattern"))
        ELSE IF Has(rules, "minLength") /\ length <= rules.minLength
            THEN Fail(Message(rules, "minLength"))
        ELSE IF Has(rules, "maxLength") /\ length >= rules.maxLength
            THEN Fail(Message(rules, "maxLength"))
        ELSE Pass

\* mutant: the maxLength check runs before the minLength check
validateFieldMaxBeforeMin(field, rules) ==
    LET value == trim(field.value)
        length == effectiveLength(field.type, value)
    IN  IF IsRequired(rules) /\ value = <<>> THEN Fail(Message(rules, "required"))
        ELSE IF value = <<>> /\ ~IsRequired(rules) THEN Pass
        ELSE IF Has(rules, "pattern") /\ ~PatternTest(rules.pattern, value)
            THEN Fail(Message(rules, "pattern"))
        ELSE IF Has(rules, "maxLength") /\ length > rules.maxLength
            THEN Fail(Message(rules, "maxLength"))
        ELSE IF Has(rules, "minLength") /\ length < rules.minLength
            THEN Fail(Message(rules, "minLength"))
        ELSE Pass

\* mutant: the value is not trimmed
validateFieldNoTrim(field, rules) ==
    LET value == field.value
        length == effectiveLength(field.type, value)
    IN  IF IsRequired(rules) /\ value = <<>> THEN Fail(Message(rules, "required"))
        ELSE IF value = <<>> /\ ~IsRequired(rules) THEN Pass
        ELSE IF Has(rules, "pattern") /\ ~PatternTest(rules.pattern, value)
            THEN Fail(Message(rules, "pattern"))
        ELSE IF Has(rules, "minLength") /\ length < rules.minLength
            THEN Fail(Message(rules, "minLength"))
        ELSE IF Has(rules, "maxLength") /\ length > rules.maxLength
            THEN Fail(Message(rules, "maxLength"))
        ELSE Pass

\* mutant: no early return for an empty optional value
validateFieldNoSkip(field, rules) ==
    LET value == trim(field.value)
        length == effectiveLength(field.type, value)
    IN  IF IsRequired(rules) /\ value = <<>> THEN Fail(Message(rules, "required"))
        ELSE IF Has(rules, "pattern") /\ ~PatternTest(rules.pattern, value)
            THEN Fail(Message(rules, "pattern"))
        ELSE IF Has(rules, "minLength") /\ length < rules.minLength
            THEN Fail(Message(rules, "minLength"))
        ELSE IF Has(rules, "maxLength") /\ length > rules.maxLength
            THEN Fail(Message(rules, "maxLength"))
        ELSE Pass

\* mutant: the length checks run before the pattern check
validateFieldLengthFirst(field, rules) ==
    LET value == trim(field.value)
        length == effectiveLength(field.type, value)
    IN  IF IsRequired(rules) /\ value = <<>> THEN Fail(Message(rules, "required"))
        ELSE IF value = <<>> /\ ~IsRequired(rules) THEN Pass
        ELSE IF Has(rules, "minLength") /\ length < rules.minLength
            THEN Fail(Message(rules, "minLength"))
        ELSE IF Has(rules, "maxLength") /\ length > rules.maxLength
            THEN Fail(Message(rules, "maxLength"))
        ELSE IF Has(rules, "pattern") /\ ~PatternTest(rules.pattern, value)
            THEN Fail(Message(rules, "pattern"))
        ELSE Pass

\* mutant: the messages of the two length checks are exchanged
validateFieldSwappedLengthMessages(field, rules) ==
    LET value == trim(field.value)
        length == effectiveLength(field.type, value)
    IN  IF IsRequired(rules) /\ value = <<>> THEN Fail(Message(rules, "required"))
        ELSE IF value = <<>> /\ ~IsRequired(rules) THEN Pass
        ELSE IF Has(rules, "pattern") /\ ~PatternTest(rules.pattern, value)
            THEN Fail(Message(rules, "pattern"))
        ELSE IF Has(rules, "minLength") /\ length < rules.minLength
            THEN Fail(Message(rules, "maxLength"))
        ELSE IF Has(rules, "maxLength") /\ length > rules.maxLength
            THEN Fail(Message(rules, "minLength"))
        ELSE Pass

validateField(field, rules) ==
    LET value == trim(field.value)
        fieldType == field.type
        length == effectiveLength(fieldType, value)
    IN  IF IsRequired(rules) /\ value = <<>>
            THEN Fail(Message(rules, "required"))
        ELSE IF value = <<>> /\ ~IsRequired(rules)
            THEN Pass
        ELSE IF Has(rules, "pattern") /\ ~PatternTest(rules.pattern, value)
            THEN Fail(Message(rules, "pattern"))
        ELSE IF Has(rules, "minLength") /\ length < rules.minLength
            THEN Fail(Message(rules, "minLength"))
        ELSE IF Has(rules, "maxLength") /\ length > rules.maxLength
            THEN Fail(Message(rules, "maxLength"))
        ELSE Pass


-----------------------------------------------------------------------------
(* The form and its DOM state *)

\* a form control: <input|select|textarea name=.. id=.. type=..>; defaultValue
\* is what form.reset() restores
Control(name, id, type) == [name |-> name, id |-> id, type |-> type, defaultValue |-> <<>>]

\* the contact form of the test fixture: five controls, each in its own .form-group
FixtureForm ==
    << Control("name", "name", "text"),
       Control("email", "email", "email"),
       Control("phone", "phone", "tel"),
       Control("service", "service", "select-one"),
       Control("message", "message", "textarea") >>

\* property names every object literal inherits from Object.prototype
ObjectPrototypeNames ==
    { "constructor", "toString", "toLocaleString", "valueOf", "hasOwnProperty",
      "isPrototypeOf", "propertyIsEnumerable", "__proto__" }

\* FIELD_RULES[fieldName]: the rule set of that name; for a name FIELD_RULES
\* inherits, the inherited object, which has none of the keys of a rule set;
\* undefined otherwise
FieldRulesLookup(fieldName) ==
    IF fieldName \in DOMAIN FIELD_RULES THEN FIELD_RULES[fieldName]
    ELSE IF fieldName \in ObjectPrototypeNames THEN [inherited |-> fieldName]
    ELSE Undefined

\* field.name && FIELD_RULES[field.name]
HasRules(control) ==
    /\ control.name # ""
    /\ control.name \in DOMAIN FIELD_RULES \cup ObjectPrototypeNames   \* the lookup is truthy

\* state of one control and of its container before any handler has run
PristineField(control) ==
    [ value           |-> control.defaultValue,
      ariaInvalid     |-> "absent",   \* attribute aria-invalid
      ariaDescribedby |-> <<>>,       \* attribute aria-describedby, <<>> when absent
      fieldError      |-> FALSE,      \* class 'field-error' on the control
      hasError        |-> FALSE,      \* class 'has-error' on the container
      errorElement    |-> <<>>,       \* the container's first '.error-message' element, <<>> when absent
      errorElements   |-> 0 ]         \* how many '.error-message' elements the container holds

PristineDom(f) ==
    [ field |-> [i \in 1..Len(f) |-> PristineField(f[i])],
      activeElement |-> 0 ]           \* index of the focused control, 0 when none is

\* `${field.id}-error`
ErrorId(control) == <<control.id, "-error">>

\* mutant: a new error element is appended on every failure
showErrorAlwaysCreates(f, d, i, errorMessage) ==
    LET old == d.field[i].errorElement
        created == IF old = <<>>
                   THEN [ textContent |-> "", display |-> "", id |-> <<>>,
                          role |-> "alert", ariaLive |-> "polite" ]
                   ELSE old
        newId == IF created.id # <<>> THEN created.id ELSE ErrorId(f[i])
    IN  [d EXCEPT !.field[i] =
            [ @ EXCEPT !.errorElement = [created EXCEPT !.textContent = errorMessage,
                                                        !.display = "block",
                                                        !.id = newId],
                       !.errorElements = @ + 1,
                       !.ariaInvalid = "true",
                       !.ariaDescribedby = newId,
                       !.fieldError = TRUE,
                       !.hasError = TRUE ]]

\* mutant: the container does not get the class 'has-error'
showErrorNoContainerClass(f, d, i, errorMessage) ==
    LET old == d.field[i].errorElement
        created == IF old = <<>>
                   THEN [ textContent |-> "", display |-> "", id |-> <<>>,
                          role |-> "alert", ariaLive |-> "polite" ]
                   ELSE old
        newId == IF created.id # <<>> THEN created.id ELSE ErrorId(f[i])
    IN  [d EXCEPT !.field[i] =
            [ @ EXCEPT !.errorElement = [created EXCEPT !.textContent = errorMessage,
                                                        !.display = "block",
                                                        !.id = newId],
                       !.errorElements = IF old = <<>> THEN @ + 1 ELSE @,
                       !.ariaInvalid = "true",
                       !.ariaDescribedby = newId,
                       !.fieldError = TRUE ]]

showError(f, d, i, errorMessage) ==
    LET old == d.field[i].errorElement
        created == IF old = <<>>
                   THEN [ textContent |-> "", display |-> "", id |-> <<>>,
                          role |-> "alert", ariaLive |-> "polite" ]
                   ELSE old
        newId == IF created.id # <<>> THEN created.id ELSE ErrorId(f[i])
    IN  [d EXCEPT !.field[i] =
            [ @ EXCEPT !.errorElement = [created EXCEPT !.textContent = errorMessage,
                                                        !.display = "block",
                                                        !.id = newId],
                       !.errorElements = IF old = <<>> THEN @ + 1 ELSE @,
                       !.ariaInvalid = "true",
                       !.ariaDescribedby = newId,
                       !.fieldError = TRUE,
                       !.hasError = TRUE ]]

\* mutant: aria-describedby is left on the control
clearErrorKeepsDescribedby(d, i) ==
    LET old == d.field[i].errorElement
    IN  [d EXCEPT !.field[i] =
            [ @ EXCEPT !.errorElement = IF old = <<>> THEN old
                                        ELSE [old EXCEPT !.textContent = "", !.display = "none"],
                       !.ariaInvalid = "false",
                       !.fieldError = FALSE,
                       !.hasError = FALSE ]]

clearError(d, i) ==
    LET old == d.field[i].errorElement
    IN  [d EXCEPT !.field[i] =
            [ @ EXCEPT !.errorElement = IF old = <<>> THEN old
                                        ELSE [old EXCEPT !.textContent = "", !.display = "none"],
                       !.ariaInvalid = "false",
                       !.ariaDescribedby = <<>>,
                       !.fieldError = FALSE,
                       !.hasError = FALSE ]]

\* the element handed to validateField: its value and type
Element(f, d, i) == [value |-> d.field[i].value, type |-> f[i].type]

\* returns the new DOM state and the function's return value
validateAndDisplayError(f, d, i) ==
    IF ~HasRules(f[i])
    THEN [dom |-> d, ret |-> TRUE]
    ELSE LET result == validateField(Element(f, d, i), FieldRulesLookup(f[i].name))
         IN  IF ~result.isValid
             THEN [dom |-> showError(f, d, i, result.error), ret |-> FALSE]
             ELSE [dom |-> clearError(d, i), ret |-> TRUE]

\* the 'blur' listener of a rule-bearing control
onBlur(f, d, i) ==
    IF HasRules(f[i]) THEN validateAndDisplayError(f, d, i).dom ELSE d

\* mutant: the focus listener clears the error whatever the value
onFocusAlwaysClears(f, d, i) ==
    IF HasRules(f[i]) THEN clearError(d, i) ELSE d

\* the 'focus' listener of a rule-bearing control
onFocus(f, d, i) ==
    IF HasRules(f[i]) /\ d.field[i].value = <<>> THEN clearError(d, i) ELSE d

\* element.focus(), and the same focus change made by the user: nothing when
\* the control already has the focus; otherwise the control that loses it gets
\* 'blur' and this one gets 'focus', both dispatched synchronously
focus(f, d, i) ==
    IF d.activeElement = i
    THEN d
    ELSE LET blurred == IF d.activeElement # 0 THEN onBlur(f, d, d.activeElement) ELSE d
         IN  onFocus(f, [blurred EXCEPT !.activeElement = i], i)

\* mutant: isValid is overwritten by each control's result, so the last one decides
RECURSIVE validateFormFromLastWins(_, _, _)
validateFormFromLastWins(f, acc, i) ==
    IF i > Len(f)
    THEN acc
    ELSE IF ~HasRules(f[i])
    THEN validateFormFromLastWins(f, acc, i + 1)
    ELSE LET r == validateAndDisplayError(f, acc.dom, i)
         IN  validateFormFromLastWins(f,
                 [ dom |-> IF ~r.ret /\ i = 1 THEN focus(f, r.dom, i) ELSE r.dom,
                   ret |-> r.ret ],
                 i + 1)

\* the forEach of validateForm from control i on; acc is [dom, ret]
RECURSIVE validateFormFrom(_, _, _)
validateFormFrom(f, acc, i) ==
    IF i > Len(f)
    THEN acc
    ELSE IF ~HasRules(f[i])
    THEN validateFormFrom(f, acc, i + 1)
    ELSE LET r == validateAndDisplayError(f, acc.dom, i)
         IN  IF r.ret
             THEN validateFormFrom(f, [dom |-> r.dom, ret |-> acc.ret], i + 1)
             ELSE validateFormFrom(f,
                      [ dom |-> IF i = 1 THEN focus(f, r.dom, i) ELSE r.dom,
                        ret |-> FALSE ],
                      i + 1)

validateForm(f, d) == validateFormFrom(f, [dom |-> d, ret |-> TRUE], 1)

\* form.querySelector('.field-error'): the first control carrying the class, 0 when none
firstFieldError(d) ==
    LET marked == {i \in DOMAIN d.field : d.field[i].fieldError}
    IN  IF marked = {} THEN 0 ELSE Min(marked)

\* mutant: preventDefault() is called in the invalid branch only
handleFormSubmitPreventIfInvalid(f, d) ==
    LET r == validateForm(f, d)
        firstError == firstFieldError(r.dom)
    IN  [ defaultPrevented |-> ~r.ret,
          isValid |-> r.ret,
          dom |-> IF ~r.ret /\ firstError # 0 THEN focus(f, r.dom, firstError) ELSE r.dom,
          success |-> r.ret ]

\* mutant: the invalid branch does not return, so the success path always runs
handleFormSubmitNoReturn(f, d) ==
    LET r == validateForm(f, d)
        firstError == firstFieldError(r.dom)
    IN  [ defaultPrevented |-> TRUE,
          isValid |-> r.ret,
          dom |-> IF ~r.ret /\ firstError # 0 THEN focus(f, r.dom, firstError) ELSE r.dom,
          success |-> TRUE ]

\* handleFormSubmit up to its call of displaySuccessMessage: whether the default
\* action was prevented, what validateForm returned, the DOM it leaves, and
\* whether it went on to displaySuccessMessage
handleFormSubmit(f, d) ==
    LET r == validateForm(f, d)
        firstError == firstFieldError(r.dom)
    IN  [ defaultPrevented |-> TRUE,
          isValid |-> r.ret,
          dom |-> IF ~r.ret /\ firstError # 0 THEN focus(f, r.dom, firstError) ELSE r.dom,
          success |-> r.ret ]   \* the `return false` of the invalid branch was not taken

\* mutant: a new '.success-message' element is inserted on every success
shownSuccessMessageAlwaysCreates(old) ==
    LET created == [ textContent |-> "", display |-> "", role |-> "status", ariaLive |-> "polite",
                     insertedBefore |-> "form",
                     elements |-> IF old = <<>> THEN 1 ELSE old.elements + 1 ]
    IN  [created EXCEPT !.textContent = "Thank you for your message! We will contact you soon.",
                        !.display = "block"]

\* the first '.success-message' element of the form's parent as
\* displaySuccessMessage leaves it; `elements` counts the '.success-message'
\* elements of the parent
shownSuccessMessage(old) ==
    LET created == IF old = <<>>
                   THEN [ textContent |-> "", display |-> "", role |-> "status", ariaLive |-> "polite",
                          insertedBefore |-> "form", elements |-> 1 ]
                   ELSE old
    IN  [created EXCEPT !.textContent = "Thank you for your message! We will contact you soon.",
                        !.display = "block"]

\* fields.forEach(clearError) from control i on
RECURSIVE clearAllFrom(_, _)
clearAllFrom(d, i) ==
    IF i > Len(d.field) THEN d ELSE clearAllFrom(clearError(d, i), i + 1)

\* mutant: the callback hides the banner and resets the values but clears no error state
resetCallbackNoClear(f, d) ==
    [d EXCEPT !.field = [i \in DOMAIN d.field |-> [d.field[i] EXCEPT !.value = f[i].defaultValue]]]

\* the callback of displaySuccessMessage's setTimeout: form.reset(), then clearError on every control
resetCallback(f, d) ==
    clearAllFrom([d EXCEPT !.field = [i \in DOMAIN d.field |->
                                        [d.field[i] EXCEPT !.value = f[i].defaultValue]]], 1)


-----------------------------------------------------------------------------
(* Inputs: the strings a control can hold and the rule sets validateField is given *)

Empty == <<>>
Blank == <<" ">>
J == <<"J">>
JohnDoe == <<"J","o","h","n"," ","D","o","e">>
Invalid == <<"i","n","v","a","l","i","d">>
JohnAtExampleCom == <<"j","o","h","n","@","e","x","a","m","p","l","e",".","c","o","m">>
UserAtExample == <<"u","s","e","r","@","e","x","a","m","p","l","e">>
Phone123 == <<"1","2","3">>
Phone123456 == <<"1","2","3","-","4","5","6">>
PaddedJohnDoe == <<" "," ","J","o","h","n"," ","D","o","e"," "," ">>
Phone1234567890 == <<"1","2","3","-","4","5","6","-","7","8","9","0">>
PhoneInternational == <<"+","1"," ","(","2","3","4",")"," ","5","6","7","-","8","9","0","0">>
Web == <<"w","e","b">>
Short == <<"S","h","o","r","t">>
TestMessage == <<"T","h","i","s"," ","i","s"," ","a"," ","t","e","s","t"," ",
                 "m","e","s","s","a","g","e",".">>

\* the values the model lets a control of the form hold, by control name
Values(name) ==
    CASE name = "name"    -> {Empty, Blank, J, JohnDoe}
      [] name = "email"   -> {Empty, Invalid, JohnAtExampleCom}
      [] name = "phone"   -> {Empty, Phone123, Phone1234567890}
      [] name = "service" -> {Empty, Web}
      [] name = "message" -> {Empty, Short, TestMessage}
      [] OTHER            -> {Empty, Web}

\* longest string of the exhaustive part of the validateField inputs
MaxLen == 3

Alphabet == {"a", "1", " ", "-", "@"}

Strings(n) == UNION {[1..k -> Alphabet] : k \in 0..n}

FieldTypes == {"text", "email", "tel", "select-one", "textarea"}

GenericMessages ==
    [required |-> "required", pattern |-> "pattern", minLength |-> "minLength", maxLength |-> "maxLength"]

\* a rule set with the given keys; "absent" and -1 leave the key out
RuleSet(required, pattern, minLength, maxLength) ==
    LET keys == {"errorMessages"}
                \cup (IF required = "absent" THEN {} ELSE {"required"})
                \cup (IF pattern = "absent" THEN {} ELSE {"pattern"})
                \cup (IF minLength = -1 THEN {} ELSE {"minLength"})
                \cup (IF maxLength = -1 THEN {} ELSE {"maxLength"})
    IN  [k \in keys |->
            CASE k = "errorMessages" -> GenericMessages
              [] k = "required"      -> (required = "true")
              [] k = "pattern"       -> pattern
              [] k = "minLength"     -> minLength
              [] k = "maxLength"     -> maxLength]

RuleSets ==
    { RuleSet(r, p, mn, mx) :
        r \in {"absent", "true", "false"},
        p \in {"absent", "NAME", "EMAIL", "PHONE"},
        mn \in {-1, 2, 3},
        mx \in {-1, 1, 2} }

RegisteredRuleSets == {FIELD_RULES[n] : n \in DOMAIN FIELD_RULES}

\* named inputs, evaluated against the registered rule sets
Samples ==
    { Empty, Blank, J, JohnDoe, Invalid, JohnAtExampleCom, Phone123, Phone1234567890,
      PhoneInternational, Web, Short, TestMessage, UserAtExample, Phone123456, PaddedJohnDoe,
      Repeat("a", 100), Repeat("a", 101), Repeat("a", 1000), Repeat("a", 1001),
      Repeat("1", 20), Repeat("1", 21) }

JoseGarcia == <<"J","o","s","E-ACUTE"," ","G","a","r","c","I-ACUTE","a">>
John123 == <<"J","o","h","n","1","2","3">>
UserAtName == <<"U","s","e","r","@","N","a","m","e">>
NameBang == <<"N","a","m","e","!">>
TestHashUser == <<"T","e","s","t","#","U","s","e","r">>
XssAttempt ==
    << "<","s","c","r","i","p","t",">","a","l","e","r","t","(","QUOTE","x","s","s","QUOTE",")",
       "<","/","s","c","r","i","p","t",">" >>
SqlInjection ==
    << "'",";"," ","D","R","O","P"," ","T","A","B","L","E"," ","u","s","e","r","s",";"," ","-","-" >>

\* the names the tests give the NAME pattern and the name rule set
NameSamples == {JoseGarcia, John123, UserAtName, NameBang, TestHashUser, XssAttempt, SqlInjection}

AtExampleCom == <<"@","e","x","a","m","p","l","e",".","c","o","m">>

\* a well-formed address of n characters: 'a'.repeat(n - 12) + '@example.com'
EmailOfLength(n) == Repeat("a", n - Len(AtExampleCom)) \o AtExampleCom

\* values at and next to the minLength and maxLength of the registered rule sets
BoundarySamples ==
    { Repeat("a", 2), Repeat("a", 9), Repeat("a", 10),
      EmailOfLength(254), EmailOfLength(255), EmailOfLength(262),
      Repeat("1", 9), Repeat("1", 10) }

ValidateFieldInputs ==
    ({[value |-> v, type |-> t] : v \in Strings(MaxLen), t \in {"text", "tel"}} \X RuleSets)
    \cup
    ({[value |-> v, type |-> t] : v \in Samples \cup BoundarySamples \cup NameSamples,
                                   t \in FieldTypes}
        \X RegisteredRuleSets)

-----------------------------------------------------------------------------
(* The navigation module (src/js/test-form-validation.js, lines 1014-1566)
   and the lazy loading of the performance module (src/unnamed/part_000,
   lines 425-986), as they are when their scripts have been evaluated and
   their initialisation has not run *)

\* the sections of the page, the one of them no link points to, and the
\* targets of the nav links, one of which is no element of the page
Sections == {"home", "services", "about"}
LinkTargets == {"home", "services", "missing"}

\* config.scrollDuration and config.scrollThrottleDelay
scrollDuration == 800
scrollThrottleDelay == 100

\* window.innerWidth of a narrow and of a wide window; config.mobileBreakpoint
NarrowWidth == 600
WideWidth == 1024
mobileBreakpoint == 768

NavCreated ==
    [ initialized   |-> FALSE,      \* init has run to its end
      isMenuOpen    |-> FALSE,      \* state.isMenuOpen
      menuOpen      |-> FALSE,      \* class 'menu-open' on the nav list
      ariaExpanded  |-> "absent",   \* aria-expanded of the toggle button; "absent" without button
      overflow      |-> "",         \* document.body.style.overflow
      activeElement |-> "body",     \* document.activeElement: body, button, first or last link, target
      innerWidth    |-> NarrowWidth,
      activeSection |-> "home",     \* state.activeSection
      ariaCurrent   |-> {},         \* the link targets whose link has aria-current='page'
      position      |-> "home",     \* the section the scroll position lies in, Null when in none
      isScrolling   |-> FALSE,      \* state.isScrolling
      animations    |-> {},         \* smooth scrolls with a frame requested: [start, target]
      scrollTimeout |-> FALSE,      \* the timer state.scrollTimeout names is pending
      linkTimers    |-> {},         \* pending timers of handleNavLinkClick: [link, due]
      now           |-> 0 ]         \* performance.now() in ms

\* Date.now() when the wrapper is created
ThrottleStart == 1000

ThrottleCreated ==
    [ now         |-> ThrottleStart,
      lastCall    |-> 0,            \* let lastCall = 0
      timer       |-> <<>>,         \* the timer timeoutId names, when pending: [due, args]
      calls       |-> 0,            \* calls of the wrapper so far; call k has the arguments k
      lastCallAt  |-> 0,            \* time of the last call of the wrapper
      invocations |-> <<>> ]        \* calls of func so far: [at, args]

\* the images that match 'img[data-src], img[data-srcset]'; the data-src of
\* one of them is the empty string
Images == {"hero", "team", "nosrc"}

LazyCreated ==
    [ initialized  |-> FALSE,                     \* initializeLazyLoading has run
      observer     |-> Null,                      \* lazyLoadState.observer
      observing    |-> {},                        \* the targets of lazyLoadState.observer
      pending      |-> {},                        \* lazyLoadState.pendingImages
      loadedImages |-> {},                        \* lazyLoadState.loadedImages
      loading      |-> {},                        \* images with src or srcset assigned and no onload / onerror yet
      assigned     |-> [i \in Images |-> 0],      \* assignments of src / srcset to the image
      handed       |-> [i \in Images |-> 0],      \* calls of loadImage by handleIntersection
      intersecting |-> [i \in Images |-> FALSE], \* the image intersects the viewport
      reported     |-> {},                        \* images the observer has made an entry for
      queue        |-> <<>> ]                     \* entries the observer has queued: [target, isIntersecting]

OtherModulesCreated == nav = NavCreated /\ throttled = ThrottleCreated /\ lazy = LazyCreated

-----------------------------------------------------------------------------
(* State machine *)

\* pending reset timers the model allows at once
MaxResetTimers == 2

NoEvent == [type |-> "none"]

\* the wait of debounce(..., 500)
DEBOUNCE_WAIT == 500

\* the time at page load; no debounce timer is pending, no 'input' has been seen
InitClock(f) ==
    [ now       |-> 0,
      pending   |-> [i \in 1..Len(f) |-> {}],   \* due times of the timers set by control i's closure
      lastInput |-> [i \in 1..Len(f) |-> -1],   \* time of control i's last 'input' event
      burst     |-> [i \in 1..Len(f) |-> 0],    \* 'input' events of control i's present burst
      runs      |-> [i \in 1..Len(f) |-> 0] ]   \* runs of `later` since control i's burst began

\* the page before the script runs: whether its form is #contact-form and
\* whether a console with warn and info exists
LoadingPage(contactForm, hasConsole) ==
    [ contactForm |-> contactForm,
      hasConsole  |-> hasConsole,
      initialized |-> FALSE,     \* initFormValidation has run
      threw       |-> FALSE,     \* it ended in an exception
      novalidate  |-> FALSE,     \* attribute novalidate of the form
      listeners   |-> {},        \* <<target, event>>; target 0 is the form, i > 0 control i
      log         |-> <<>> ]     \* calls of console.warn and console.info

\* mutant: the missing form is not tested for, so form.setAttribute throws on null
initFormValidationNoGuard(p, f) ==
    IF ~p.contactForm
    THEN [p EXCEPT !.initialized = TRUE, !.threw = TRUE]
    ELSE [p EXCEPT !.initialized = TRUE,
                   !.novalidate = TRUE,
                   !.listeners = {<<0, "submit">>} \cup
                       {<<i, e>> : i \in {k \in 1..Len(f) : HasRules(f[k])},
                                   e \in {"blur", "input", "focus"}},
                   !.log = IF p.hasConsole THEN Append(@, "info: Form validation initialized") ELSE @]

initFormValidation(p, f) ==
    IF ~p.contactForm
    THEN [p EXCEPT !.initialized = TRUE,
                   !.log = IF p.hasConsole THEN Append(@, "warn: Contact form not found") ELSE @]
    ELSE [p EXCEPT !.initialized = TRUE,
                   !.novalidate = TRUE,
                   !.listeners = {<<0, "submit">>} \cup
                       {<<i, e>> : i \in {k \in 1..Len(f) : HasRules(f[k])},
                                   e \in {"blur", "input", "focus"}},
                   !.log = IF p.hasConsole THEN Append(@, "info: Form validation initialized") ELSE @]

\* the form with every control at its default value: the state after initFormValidation
InitDom(f) ==
    /\ form = f
    /\ dom = PristineDom(f)
    /\ timeout = [i \in 1..Len(f) |-> FALSE]
    /\ successMessage = <<>>
    /\ resetTimers = <<>>
    /\ lastEvent = NoEvent
    /\ clock = InitClock(f)
    /\ page = initFormValidation(LoadingPage(TRUE, TRUE), f)
    /\ fieldRules = FIELD_RULES
    /\ OtherModulesCreated

NoCall ==
    /\ vfField = [value |-> Empty, type |-> "text"]
    /\ vfRules = FIELD_RULES.name
    /\ vfResult = <<>>

\* a script calls the exported validateField(field, rules)
CallValidateField ==
    /\ vfResult = <<>>
    /\ vfResult' = validateField(vfField, vfRules)
    /\ UNCHANGED <<otherModules, fieldRules, vfField, vfRules, form, dom, timeout, successMessage, resetTimers, lastEvent, clock, page>>

\* the user moves the focus to control i (click, Tab)
FocusEvent(i) ==
    /\ dom.activeElement # i
    /\ dom' = focus(form, dom, i)
    /\ lastEvent' = [type |-> "focus", target |-> i]
    /\ UNCHANGED <<otherModules, fieldRules, vfField, vfRules, vfResult, form, timeout, successMessage, resetTimers, clock, page>>

\* the focused control loses the focus to something outside the model (the
\* submit button, the page)
BlurEvent ==
    /\ dom.activeElement # 0
    /\ dom' = [onBlur(form, dom, dom.activeElement) EXCEPT !.activeElement = 0]
    /\ lastEvent' = [type |-> "blur", target |-> dom.activeElement]
    /\ UNCHANGED <<otherModules, fieldRules, vfField, vfRules, vfResult, form, timeout, successMessage, resetTimers, clock, page>>

\* the user edits control i: its value becomes v and 'input' is dispatched;
\* the listener (rule-bearing controls only) is the debounced function, which
\* only (re)arms its timer
InputHandler(i, v) ==
    /\ dom' = [dom EXCEPT !.field[i].value = v]
    /\ timeout' = IF HasRules(form[i]) THEN [timeout EXCEPT ![i] = TRUE] ELSE timeout
    /\ lastEvent' = [type |-> "input", target |-> i]
    /\ UNCHANGED <<otherModules, fieldRules, vfField, vfRules, vfResult, form, successMessage, resetTimers, page>>

\* the same, the time not being tracked
InputEvent(i, v) == InputHandler(i, v) /\ UNCHANGED clock

\* mutant: debouncedValidation validates whether or not the control has been touched
laterAlwaysValidates(i) ==
    /\ timeout' = [timeout EXCEPT ![i] = FALSE]
    /\ dom' = validateAndDisplayError(form, dom, i).dom
    /\ lastEvent' = [type |-> "debounce", target |-> i]
    /\ UNCHANGED <<otherModules, fieldRules, vfField, vfRules, vfResult, form, successMessage, resetTimers, page>>

\* `later` of the debounce closure of control i, running debouncedValidation
later(i) ==
    /\ timeout' = [timeout EXCEPT ![i] = FALSE]
    /\ dom' = IF dom.field[i].value # <<>> \/ dom.field[i].fieldError
              THEN validateAndDisplayError(form, dom, i).dom
              ELSE dom
    /\ lastEvent' = [type |-> "debounce", target |-> i]
    /\ UNCHANGED <<otherModules, fieldRules, vfField, vfRules, vfResult, form, successMessage, resetTimers, page>>

\* the debounce timer of control i fires, the time not being tracked
DebounceFire(i) == timeout[i] /\ later(i) /\ UNCHANGED clock

\* the timer id the next setTimeout of displaySuccessMessage is known by
freshTimer == Min((1..(Len(resetTimers) + 1)) \ {resetTimers[k] : k \in DOMAIN resetTimers})

\* mutant: displaySuccessMessage cancels the pending reset timer before it sets the new one
SubmitEventCancelAndReplace ==
    LET h == handleFormSubmit(form, dom)
    IN  /\ dom' = h.dom
        /\ successMessage' = IF h.success THEN shownSuccessMessage(successMessage) ELSE successMessage
        /\ resetTimers' = IF h.success THEN <<freshTimer>> ELSE resetTimers
        /\ lastEvent' = [ type |-> "submit", defaultPrevented |-> h.defaultPrevented,
                          isValid |-> h.isValid,
                          timer |-> IF h.success THEN freshTimer ELSE 0 ]
        /\ UNCHANGED <<otherModules, fieldRules, vfField, vfRules, vfResult, form, timeout, clock, page>>

\* a 'submit' event on the form: handleFormSubmit, and displaySuccessMessage when valid
SubmitEvent ==
    LET h == handleFormSubmit(form, dom)
    IN  /\ h.success => Len(resetTimers) < MaxResetTimers
        /\ dom' = h.dom
        /\ successMessage' = IF h.success THEN shownSuccessMessage(successMessage) ELSE successMessage
        /\ resetTimers' = IF h.success THEN Append(resetTimers, freshTimer) ELSE resetTimers
        /\ lastEvent' = [ type |-> "submit", defaultPrevented |-> h.defaultPrevented,
                          isValid |-> h.isValid,
                          timer |-> IF h.success THEN freshTimer ELSE 0 ]
        /\ UNCHANGED <<otherModules, fieldRules, vfField, vfRules, vfResult, form, timeout, clock, page>>

\* a script calls the exported validateForm(form)
CallValidateForm ==
    LET r == validateForm(form, dom)
    IN  /\ dom' = r.dom
        /\ lastEvent' = [type |-> "validateForm", ret |-> r.ret]
        /\ UNCHANGED <<otherModules, fieldRules, vfField, vfRules, vfResult, form, timeout, successMessage, resetTimers, clock, page>>

\* the oldest pending reset timer fires (all have the same delay)
ResetTimerFire ==
    /\ resetTimers # <<>>
    /\ dom' = resetCallback(form, dom)
    /\ successMessage' = [successMessage EXCEPT !.display = "none"]
    /\ resetTimers' = Tail(resetTimers)
    /\ lastEvent' = [type |-> "resetTimer", timer |-> Head(resetTimers)]
    /\ UNCHANGED <<otherModules, fieldRules, vfField, vfRules, vfResult, form, timeout, clock, page>>

\* the form of the event-driven specification: two rule-bearing controls
SmallForm == <<FixtureForm[1], FixtureForm[3]>>

Init == InitDom(SmallForm) /\ NoCall

Next ==
    \/ \E i \in 1..Len(form) : FocusEvent(i)
    \/ BlurEvent
    \/ \E i \in 1..Len(form) : \E v \in Values(form[i].name) : InputEvent(i, v)
    \/ \E i \in 1..Len(form) : DebounceFire(i)
    \/ SubmitEvent
    \/ CallValidateForm
    \/ ResetTimerFire

Spec == Init /\ [][Next]_vars

\* a form with a control that has no rule set in front of the fixture's five
CompanyFirstForm == <<Control("company", "company", "text")>> \o FixtureForm

\* the forms of the aggregation specification
AggForms == {FixtureForm, CompanyFirstForm}

\* every assignment of modelled values to the first n controls of form f
RECURSIVE ValueChoices(_, _)
ValueChoices(f, n) ==
    IF n = 0 THEN {<<>>}
    ELSE {Append(p, v) : p \in ValueChoices(f, n - 1), v \in Values(f[n].name)}

\* the form filled in with the values vals (no event dispatched), control a focused
FilledDom(f, vals, a) ==
    [ field |-> [i \in 1..Len(f) |-> [PristineField(f[i]) EXCEPT !.value = vals[i]]],
      activeElement |-> a ]

\* validateForm and submit on a filled-in form: every combination of values, any control focused
InitAgg ==
    /\ NoCall
    /\ \E f \in AggForms :
        /\ form = f
        /\ \E vals \in ValueChoices(f, Len(f)) : \E a \in 0..Len(f) : dom = FilledDom(f, vals, a)
        /\ timeout = [i \in 1..Len(f) |-> FALSE]
        /\ clock = InitClock(f)
        /\ page = initFormValidation(LoadingPage(TRUE, TRUE), f)
    /\ successMessage = <<>>
    /\ resetTimers = <<>>
    /\ lastEvent = NoEvent
    /\ fieldRules = FIELD_RULES
    /\ OtherModulesCreated

NextAgg ==
    \/ CallValidateForm
    \/ SubmitEvent
    \/ ResetTimerFire

SpecAgg == InitAgg /\ [][NextAgg]_vars

\* a form of one rule-bearing control and one without a rule set
TwoControlForm == <<FixtureForm[1], Control("company", "company", "text")>>

InitTimers == InitDom(TwoControlForm) /\ NoCall

\* every event on the two-control form; timers always fire, since the event
\* loop runs every due callback
SpecTimers == InitTimers /\ [][Next]_vars /\ WF_vars(ResetTimerFire)

\* ---- the timed specification: one control, the debounce timer and the time ----

MaxTime == 1200

\* the steps by which the time advances, in ms
TickSteps == {100, 499}

\* the 'input' events counted in one burst
MaxBurst == 3

NameForm == <<FixtureForm[1]>>

\* an 'input' event on control i at time c.now comes less than the wait after the previous one
InBurst(c, i) == c.lastInput[i] >= 0 /\ c.now - c.lastInput[i] < DEBOUNCE_WAIT

\* executedFunction of debounce called at time c.now without clearTimeout
debounceCallNoClear(c, i) ==
    [c EXCEPT !.pending[i] = @ \cup {c.now + DEBOUNCE_WAIT},
              !.burst[i] = IF InBurst(c, i) THEN Min({@ + 1, MaxBurst}) ELSE 1,
              !.runs[i] = IF InBurst(c, i) THEN @ ELSE 0,
              !.lastInput[i] = c.now]

\* mutant: one `timeout` handle is shared by the closures of all controls
debounceCallSharedHandle(c, i) ==
    [c EXCEPT !.pending = [j \in DOMAIN @ |-> IF j = i THEN {c.now + DEBOUNCE_WAIT} ELSE {}],
              !.burst[i] = IF InBurst(c, i) THEN Min({@ + 1, MaxBurst}) ELSE 1,
              !.runs[i] = IF InBurst(c, i) THEN @ ELSE 0,
              !.lastInput[i] = c.now]

\* executedFunction of debounce called at time c.now: clearTimeout(timeout) removes the
\* timer the handle names, the one set last, and setTimeout(later, wait) sets a new one
debounceCall(c, i) ==
    [c EXCEPT !.pending[i] = (IF @ = {} THEN {} ELSE @ \ {Max(@)}) \cup {c.now + DEBOUNCE_WAIT},
              !.burst[i] = IF InBurst(c, i) THEN Min({@ + 1, MaxBurst}) ELSE 1,
              !.runs[i] = IF InBurst(c, i) THEN @ ELSE 0,
              !.lastInput[i] = c.now]

\* an 'input' event on control i at the present time
TimedInputEvent(i, v) ==
    /\ HasRules(form[i])
    /\ InputHandler(i, v)
    /\ clock' = debounceCall(clock, i)

\* a timer of control i that is due runs `later`; a timer never runs early, it may run late
TimedDebounceFire(i) ==
    \E d \in clock.pending[i] :
        /\ clock.now >= d
        /\ later(i)
        /\ clock' = [clock EXCEPT !.pending[i] = @ \ {d}, !.runs[i] = @ + 1]

Tick ==
    \E step \in TickSteps :
        /\ clock.now + step <= MaxTime
        /\ clock' = [clock EXCEPT !.now = @ + step]
        /\ UNCHANGED <<otherModules, fieldRules, vfField, vfRules, vfResult, form, dom, timeout, successMessage,
                       resetTimers, lastEvent, page>>

InitTimed == InitDom(NameForm) /\ NoCall

NextTimed ==
    \/ \E i \in 1..Len(form) : FocusEvent(i)
    \/ BlurEvent
    \/ \E i \in 1..Len(form) : \E v \in Values(form[i].name) : TimedInputEvent(i, v)
    \/ \E i \in 1..Len(form) : TimedDebounceFire(i)
    \/ Tick

SpecTimed == InitTimed /\ [][NextTimed]_vars

\* the same with two rule-bearing controls, each with its own debounce closure;
\* the time advances by one step and the events are those of the timers
MaxTimePair == 1000
TickStepPair == 250

\* an empty and an invalid value for each control
PairValues(name) == IF name = "name" THEN {Empty, J} ELSE {Empty, Phone123}

TickPair ==
    /\ clock.now + TickStepPair <= MaxTimePair
    /\ clock' = [clock EXCEPT !.now = @ + TickStepPair]
    /\ UNCHANGED <<otherModules, fieldRules, vfField, vfRules, vfResult, form, dom, timeout, successMessage,
                   resetTimers, lastEvent, page>>

InitTimedPair == InitDom(SmallForm) /\ NoCall

NextTimedPair ==
    \/ \E i \in 1..Len(form) : \E v \in PairValues(form[i].name) : TimedInputEvent(i, v)
    \/ \E i \in 1..Len(form) : TimedDebounceFire(i)
    \/ TickPair

SpecTimedPair == InitTimedPair /\ [][NextTimedPair]_vars

\* a form whose second control bears a name FIELD_RULES inherits
PrototypeNameForm == <<FixtureForm[1], Control("constructor", "constructor", "text")>>

\* forms with a control whose name is no key of FIELD_RULES
UnruledForms == {TwoControlForm, PrototypeNameForm}

InitUnruled == (\E f \in UnruledForms : InitDom(f)) /\ NoCall

\* every event on a form with a control that has no rule set of its own
SpecUnruled == InitUnruled /\ [][Next]_vars

\* ---- the page-load specification: initFormValidation with and without #contact-form ----

\* the script runs: now, or on DOMContentLoaded
RunInitFormValidation ==
    /\ ~page.initialized
    /\ page' = initFormValidation(page, form)
    /\ lastEvent' = [type |-> "init"]
    /\ UNCHANGED <<otherModules, fieldRules, vfField, vfRules, vfResult, form, dom, timeout, successMessage, resetTimers,
                   clock>>

\* initFormValidation has attached the module's listeners
Listening == <<0, "submit">> \in page.listeners

\* the user focuses, leaves or edits a control no listener is attached to:
\* only what the browser itself does happens
UnheardFocus(i) ==
    /\ dom.activeElement # i
    /\ dom' = [dom EXCEPT !.activeElement = i]
    /\ lastEvent' = [type |-> "focus", target |-> i]
    /\ UNCHANGED <<otherModules, fieldRules, vfField, vfRules, vfResult, form, timeout, successMessage, resetTimers,
                   clock, page>>

UnheardBlur ==
    /\ dom.activeElement # 0
    /\ dom' = [dom EXCEPT !.activeElement = 0]
    /\ lastEvent' = [type |-> "blur", target |-> dom.activeElement]
    /\ UNCHANGED <<otherModules, fieldRules, vfField, vfRules, vfResult, form, timeout, successMessage, resetTimers,
                   clock, page>>

UnheardInput(i, v) ==
    /\ dom' = [dom EXCEPT !.field[i].value = v]
    /\ lastEvent' = [type |-> "input", target |-> i]
    /\ UNCHANGED <<otherModules, fieldRules, vfField, vfRules, vfResult, form, timeout, successMessage, resetTimers,
                   clock, page>>

InitLoading ==
    /\ form = NameForm
    /\ dom = PristineDom(NameForm)
    /\ timeout = [i \in 1..Len(NameForm) |-> FALSE]
    /\ successMessage = <<>>
    /\ resetTimers = <<>>
    /\ lastEvent = NoEvent
    /\ clock = InitClock(NameForm)
    /\ \E contactForm \in BOOLEAN, hasConsole \in BOOLEAN : page = LoadingPage(contactForm, hasConsole)
    /\ fieldRules = FIELD_RULES
    /\ OtherModulesCreated
    /\ NoCall

NextLoading ==
    \/ RunInitFormValidation
    \/ Listening /\ Next
    \/ ~Listening /\ \E i \in 1..Len(form) : UnheardFocus(i)
    \/ ~Listening /\ UnheardBlur
    \/ ~Listening /\ \E i \in 1..Len(form) : \E v \in Values(form[i].name) : UnheardInput(i, v)

SpecLoading == InitLoading /\ [][NextLoading]_vars

\* direct calls of validateField, one per behaviour, on every input
InitVF ==
    /\ InitDom(FixtureForm)
    /\ \E in \in ValidateFieldInputs : vfField = in[1] /\ vfRules = in[2]
    /\ vfResult = <<>>

NextVF == CallValidateField

SpecVF == InitVF /\ [][NextVF]_vars


-----------------------------------------------------------------------------
(* Claims about validateField, checked under SpecVF *)

Called == vfResult # <<>>

TrimmedValue == trim(vfField.value)

\* the number of digit characters of s, counted position by position
DigitCount(s) == Cardinality({i \in 1..Len(s) : s[i] \in Digit})

\* the length the claims compare with the bounds
ClaimedLength == IF vfField.type = "tel" THEN DigitCount(TrimmedValue) ELSE Len(TrimmedValue)

RequiredFails == IsRequired(vfRules) /\ TrimmedValue = <<>>
\* an empty optional value: the remaining checks are not run
ChecksSkipped == ~IsRequired(vfRules) /\ TrimmedValue = <<>>
PatternFails == Has(vfRules, "pattern") /\ ~PatternTest(vfRules.pattern, TrimmedValue)
MinLengthFails == Has(vfRules, "minLength") /\ ClaimedLength < vfRules.minLength
MaxLengthFails == Has(vfRules, "maxLength") /\ ClaimedLength > vfRules.maxLength

\* C1: validateField runs its checks on the trimmed value in the order
\* required, pattern, minLength, maxLength (the last three only when the
\* value is not an empty optional one) and returns exactly the message of the
\* first check that fails; it returns {isValid: true, error: null} exactly
\* when none of the checks it runs fails.
C1_FirstFailingCheckWins ==
    Called =>
        vfResult =
            IF RequiredFails THEN Fail(Message(vfRules, "required"))
            ELSE IF ChecksSkipped THEN Pass
            ELSE IF PatternFails THEN Fail(Message(vfRules, "pattern"))
            ELSE IF MinLengthFails THEN Fail(Message(vfRules, "minLength"))
            ELSE IF MaxLengthFails THEN Fail(Message(vfRules, "maxLength"))
            ELSE Pass

\* a value that fails the pattern and both kinds of length bound got the pattern message
C1_Witness ==
    /\ Called
    /\ ~RequiredFails /\ PatternFails /\ MinLengthFails
    /\ Has(vfRules, "maxLength")
    /\ vfResult = Fail(Message(vfRules, "pattern"))

\* C2: with required=true, an empty or whitespace-only value yields
\* isValid=false and the rule set's 'required' message, whatever the other rules.
C2_RequiredOnBlank ==
    (Called /\ IsRequired(vfRules) /\ \A i \in 1..Len(vfField.value) : vfField.value[i] \in WhiteSpace)
        => vfResult = [isValid |-> FALSE, error |-> Message(vfRules, "required")]

\* a whitespace-only value under a rule set that also has a pattern and length bounds
C2_Witness ==
    /\ Called
    /\ IsRequired(vfRules)
    /\ Len(vfField.value) >= 2
    /\ \A i \in 1..Len(vfField.value) : vfField.value[i] \in WhiteSpace
    /\ Has(vfRules, "pattern") /\ Has(vfRules, "minLength") /\ Has(vfRules, "maxLength")
    /\ vfResult = Fail("required")

\* C3: with required false or absent, a value whose trimmed form is empty
\* yields {isValid: true, error: null}, whatever the pattern and length rules.
C3_OptionalEmptyPasses ==
    (Called /\ ~IsRequired(vfRules) /\ TrimmedValue = <<>>) => vfResult = Pass

\* an empty optional value passed although the rule set has a pattern and a minLength
C3_Witness ==
    /\ Called
    /\ ~Has(vfRules, "required")
    /\ TrimmedValue = <<>>
    /\ Has(vfRules, "pattern") /\ Has(vfRules, "minLength")
    /\ vfResult = Pass

\* C4: a non-empty trimmed value that does not match the rule set's pattern
\* yields the 'pattern' message, never a length message, even when it also
\* violates a length bound.
C4_PatternBeforeLength ==
    (Called /\ TrimmedValue # <<>> /\ PatternFails) =>
        /\ vfResult = [isValid |-> FALSE, error |-> Message(vfRules, "pattern")]
        /\ vfResult.error \notin {Message(vfRules, "minLength"), Message(vfRules, "maxLength")}

\* a value too long for maxLength that also fails the pattern
C4_Witness ==
    /\ Called
    /\ TrimmedValue # <<>> /\ PatternFails /\ MaxLengthFails
    /\ vfResult.error = "pattern"

\* C5: for a value that passes the required and pattern checks, the length
\* compared with minLength and maxLength is the digit count of the trimmed
\* value for type 'tel' and the trimmed string length for any other type; the
\* tel value '+1 (234) 567-8900' passes the phone rule set.
C5_EffectiveLength ==
    /\ (Called /\ TrimmedValue # <<>> /\ ~PatternFails) =>
            vfResult = IF MinLengthFails THEN Fail(Message(vfRules, "minLength"))
                       ELSE IF MaxLengthFails THEN Fail(Message(vfRules, "maxLength"))
                       ELSE Pass
    /\ (Called /\ vfField = [value |-> PhoneInternational, type |-> "tel"]
               /\ vfRules = FIELD_RULES.phone) => vfResult = Pass

\* a tel value whose string length exceeds maxLength and whose digit count does not
C5_Witness ==
    /\ Called
    /\ vfField.type = "tel"
    /\ Has(vfRules, "maxLength")
    /\ Len(TrimmedValue) > vfRules.maxLength
    /\ DigitCount(TrimmedValue) >= 1
    /\ vfResult = Pass

\* s has an '@' and no '.' after its last '@'
NoTopLevelDomain(s) ==
    /\ \E i \in 1..Len(s) : s[i] = "@"
    /\ \A i, j \in 1..Len(s) : (s[i] = "@" /\ i < j) => s[j] # "."

\* C13: a value with no dot-separated top-level domain after the '@'
\* evaluated against the email rule set fails with
\* 'Please enter a valid email address'.
C13_EmailNeedsTopLevelDomain ==
    (Called /\ vfRules = FIELD_RULES.email /\ NoTopLevelDomain(TrimmedValue)) =>
        vfResult = Fail("Please enter a valid email address")

\* the value passes the required and pattern checks and is not an empty optional one
ReachesLengthChecks == Called /\ ~RequiredFails /\ ~ChecksSkipped /\ ~PatternFails

\* C14: a value that passes the required and pattern checks and is too short
\* yields the rule set's minLength message, and one that is too long (and
\* not too short) its maxLength message: 'J' as name yields 'Name must be at
\* least 2 characters long', '123-456' as tel-typed phone 'Phone number must
\* be at least 10 digits', 1001 characters as message 'Message must not
\* exceed 1000 characters'.
C14_LengthMessages ==
    /\ (ReachesLengthChecks /\ MinLengthFails) => vfResult = Fail(Message(vfRules, "minLength"))
    /\ (ReachesLengthChecks /\ ~MinLengthFails /\ MaxLengthFails) =>
            vfResult = Fail(Message(vfRules, "maxLength"))
    /\ (Called /\ vfRules = FIELD_RULES.name /\ vfField.type = "text" /\ vfField.value = J) =>
            vfResult = Fail("Name must be at least 2 characters long")
    /\ (Called /\ vfRules = FIELD_RULES.phone /\ vfField.type = "tel" /\ vfField.value = Phone123456) =>
            vfResult = Fail("Phone number must be at least 10 digits")
    /\ (Called /\ vfRules = FIELD_RULES.message /\ vfField.type = "textarea"
            /\ vfField.value = Repeat("a", 1001)) =>
            vfResult = Fail("Message must not exceed 1000 characters")

\* '123-456' as tel-typed phone has been rejected for its six digits
C14_Witness ==
    /\ Called
    /\ vfRules = FIELD_RULES.phone
    /\ vfField.type = "tel"
    /\ vfField.value = Phone123456
    /\ DigitCount(TrimmedValue) = 6
    /\ vfResult = Fail("Phone number must be at least 10 digits")

\* runs of whitespace put before and after a value
Pads == {<<>>, <<" ">>, <<" ", " ">>, <<"TAB", " ">>, <<"LF">>}

\* C16: for every value and rule set, validateField returns for the value
\* surrounded by whitespace what it returns for the value itself, and
\* '  John Doe  ' is a valid name.
C16_WhitespaceIndependent ==
    /\ Called =>
        \A l, r \in Pads :
            validateField([vfField EXCEPT !.value = l \o vfField.value \o r], vfRules) = vfResult
    /\ (Called /\ vfRules = FIELD_RULES.name /\ vfField.type = "text" /\ vfField.value = PaddedJohnDoe) =>
            vfResult = Pass

\* '  John Doe  ' has been accepted as a name
C16_Witness ==
    /\ Called
    /\ vfRules = FIELD_RULES.name
    /\ vfField.type = "text"
    /\ vfField.value = PaddedJohnDoe
    /\ Len(TrimmedValue) < Len(vfField.value)
    /\ vfResult = Pass

ViolationKinds == {"required", "pattern", "minLength", "maxLength"}

\* the check of the given kind fails on the value validateField was given
KindFails(kind) ==
    CASE kind = "required"  -> RequiredFails
      [] kind = "pattern"   -> ~RequiredFails /\ PatternFails
      [] kind = "minLength" -> ~RequiredFails /\ MinLengthFails
      [] kind = "maxLength" -> ~RequiredFails /\ MaxLengthFails

\* C19: for every value and each of the five registered rule sets,
\* validateField returns a record {isValid, error} whose error is null
\* exactly when isValid is true, and otherwise is the rule set's own message
\* for a kind of violation (required, pattern, minLength, maxLength) that the
\* value commits.
C19_StructuredResult ==
    (Called /\ vfRules \in RegisteredRuleSets) =>
        /\ DOMAIN vfResult = {"isValid", "error"}
        /\ vfResult.isValid \in BOOLEAN
        /\ vfResult.error = Null <=> vfResult.isValid
        /\ vfResult.error # Undefined
        /\ ~vfResult.isValid =>
            \E kind \in ViolationKinds :
                /\ KindFails(kind)
                /\ Has(vfRules.errorMessages, kind)
                /\ vfResult.error = vfRules.errorMessages[kind]

\* a name has been rejected by the phone rule set with the phone pattern message
C19_Witness ==
    /\ Called
    /\ vfRules = FIELD_RULES.phone
    /\ vfField.value = JohnDoe
    /\ ~vfResult.isValid
    /\ vfResult.error = "Please enter a valid phone number"

-----------------------------------------------------------------------------
(* Claims about validateForm and the submit handler *)

\* control i of the form holds a value that validateField accepts
FieldValid(i) == validateField(Element(form, dom, i), FieldRulesLookup(form[i].name)).isValid

RuleBearing == {i \in 1..Len(form) : HasRules(form[i])}

AllFieldsValid == \A i \in RuleBearing : FieldValid(i)

\* control i displays its error: aria-invalid='true', class 'field-error', and a
\* visible error message
DisplaysError(i) ==
    /\ dom.field[i].ariaInvalid = "true"
    /\ dom.field[i].fieldError
    /\ dom.field[i].errorElement # <<>>
    /\ dom.field[i].errorElement.display = "block"
    /\ dom.field[i].errorElement.textContent # ""

\* validateForm has just returned, called directly or by the submit handler
\* (neither changes a value, so the values are those it validated)
ValidateFormReturned == lastEvent.type \in {"validateForm", "submit"}

ValidateFormResult == IF lastEvent.type = "submit" THEN lastEvent.isValid ELSE lastEvent.ret

\* C6: validateForm(form) returns true if and only if every control of the
\* form whose name has a rule set passes validateField with its current value.
C6_FormValidIffAllFieldsValid ==
    ValidateFormReturned => (ValidateFormResult <=> AllFieldsValid)

\* validateForm returned true on the fixture's form with all five controls valid
C6_Witness ==
    /\ lastEvent = [type |-> "validateForm", ret |-> TRUE]
    /\ form = FixtureForm
    /\ \A i \in 1..5 : dom.field[i].value # <<>>

\* C7: when validateForm has returned, every rule-bearing control whose value
\* fails validateField is displaying its error.
C7_AllErrorsDisplayed ==
    ValidateFormReturned => \A i \in RuleBearing : ~FieldValid(i) => DisplaysError(i)

\* C8: every submit event on the contact form has its default action prevented.
C8_SubmitAlwaysPrevented ==
    lastEvent.type = "submit" => lastEvent.defaultPrevented

\* a submit of a valid form (the success path ran) was prevented
C8_Witness ==
    /\ lastEvent.type = "submit"
    /\ lastEvent.isValid
    /\ lastEvent.timer # 0
    /\ lastEvent.defaultPrevented

BannerVisible(el) == el # <<>> /\ el.display = "block"

\* C9: a submit on a form with an invalid rule-bearing control changes neither
\* the success banner nor the set of pending reset timers, and the banner
\* becomes visible only in a submit step for which validateForm returned true.
C9_SuccessOnlyWhenValid ==
    [][ /\ (lastEvent'.type = "submit" /\ ~AllFieldsValid) =>
                (successMessage' = successMessage /\ resetTimers' = resetTimers)
        /\ (~BannerVisible(successMessage) /\ BannerVisible(successMessage')) =>
                (lastEvent'.type = "submit" /\ lastEvent'.isValid /\ AllFieldsValid)
      ]_vars

\* an invalid submit happened while the banner of an earlier success was showing
C9_Witness ==
    /\ lastEvent.type = "submit"
    /\ ~lastEvent.isValid
    /\ lastEvent.timer = 0
    /\ BannerVisible(successMessage)
    /\ resetTimers # <<>>

Pending(t) == \E k \in DOMAIN resetTimers : resetTimers[k] = t

Fired(t) == lastEvent.type = "resetTimer" /\ lastEvent.timer = t

\* control i shows no error state at all
ErrorStateCleared(i) ==
    /\ dom.field[i].ariaInvalid = "false"
    /\ dom.field[i].ariaDescribedby = <<>>
    /\ ~dom.field[i].fieldError
    /\ ~dom.field[i].hasError
    /\ dom.field[i].errorElement # <<>> =>
        (dom.field[i].errorElement.textContent = "" /\ dom.field[i].errorElement.display = "none")

\* C10: the reset timer of a successful submit is removed by no step other
\* than its own firing, it eventually fires, and when it has fired every
\* control holds its default value, the banner is hidden and the error state
\* of every control of the form is cleared.
C10_ResetTimerFires ==
    /\ [][\A t \in 1..MaxResetTimers :
            (Pending(t) /\ ~Pending(t)') => (lastEvent'.type = "resetTimer" /\ lastEvent'.timer = t)]_vars
    /\ \A t \in 1..MaxResetTimers : Pending(t) ~> Fired(t)
    /\ [](lastEvent.type = "resetTimer" =>
            /\ ~BannerVisible(successMessage)
            /\ \A i \in 1..Len(form) :
                dom.field[i].value = form[i].defaultValue /\ ErrorStateCleared(i))

\* a reset timer has fired while the timer of a later submit is still pending
C10_Witness ==
    /\ lastEvent.type = "resetTimer"
    /\ resetTimers # <<>>
    /\ successMessage.display = "none"

\* C12: the reset timer is cancel-and-replace: a successful submit leaves only
\* its own reset timer pending, so no timer of an earlier submit fires, and
\* while a reset timer is pending the banner is visible.
C12_ResetTimerCancelAndReplace ==
    /\ Len(resetTimers) <= 1
    /\ lastEvent.type = "resetTimer" => resetTimers = <<>>
    /\ resetTimers # <<>> => BannerVisible(successMessage)

\* control i carries every marker of the violation its value commits
ErrorStateShown(i) ==
    LET fld == dom.field[i]
        result == validateField(Element(form, dom, i), FieldRulesLookup(form[i].name))
    IN  /\ fld.ariaInvalid = "true"
        /\ fld.errorElement # <<>>
        /\ fld.errorElement.id # <<>>
        /\ fld.ariaDescribedby = fld.errorElement.id
        /\ fld.errorElement.role = "alert"
        /\ fld.errorElement.ariaLive = "polite"
        /\ fld.errorElement.textContent = result.error
        /\ fld.errorElement.display = "block"
        /\ fld.fieldError
        /\ fld.hasError

\* C18: after a 'blur' event on a rule-bearing control whose value fails
\* validation, the control has aria-invalid='true' and an aria-describedby
\* naming the error element of its container, which has role='alert' and
\* aria-live='polite', holds the violation message and is displayed, and
\* control and container carry 'field-error' and 'has-error'; after a 'blur'
\* on one whose value passes, aria-invalid is 'false', aria-describedby and
\* both classes are removed and the error element is empty and hidden.
C18_BlurShowsOrClearsError ==
    (lastEvent.type = "blur" /\ HasRules(form[lastEvent.target])) =>
        IF FieldValid(lastEvent.target)
        THEN ErrorStateCleared(lastEvent.target)
        ELSE ErrorStateShown(lastEvent.target)

\* a control that displayed an error has been corrected and then left
C18_Witness ==
    /\ lastEvent.type = "blur"
    /\ HasRules(form[lastEvent.target])
    /\ FieldValid(lastEvent.target)
    /\ dom.field[lastEvent.target].errorElement # <<>>
    /\ dom.field[lastEvent.target].errorElement.display = "none"

-----------------------------------------------------------------------------
(* Claims about controls without a rule set, checked under SpecUnruled *)

\* the controls whose name is no key of FIELD_RULES
Unruled == {i \in 1..Len(form) : form[i].name \notin DOMAIN FIELD_RULES}

\* what showError and clearError write of control i
ErrorState(d, i) == [d.field[i] EXCEPT !.value = <<>>]

\* C17: a control whose name has no rule set in FIELD_RULES is always valid:
\* validateAndDisplayError returns true for it without evaluating it,
\* validateForm returns false only when a control with a rule set is invalid,
\* the control never displays an error, and no listener is attached to it,
\* so that no debounce timer is ever set for it and nothing but the reset
\* after a successful submit writes its error state.
C17_UnruledFieldAlwaysValid ==
    /\ [](\A i \in Unruled :
            /\ validateAndDisplayError(form, dom, i).ret
            /\ ~DisplaysError(i)
            /\ ~timeout[i])
    /\ []((ValidateFormReturned /\ ~ValidateFormResult) =>
            \E i \in (1..Len(form)) \ Unruled : ~FieldValid(i))
    /\ [][\A i \in Unruled :
            ErrorState(dom, i)' # ErrorState(dom, i) => lastEvent'.type = "resetTimer"]_vars

-----------------------------------------------------------------------------
(* Claims about page load, checked under SpecLoading *)

\* the step is initFormValidation running on a page without #contact-form
InitWithoutForm == ~page.contactForm /\ ~page.initialized /\ page'.initialized

\* C20: on a page without #contact-form, initFormValidation does not throw,
\* attaches no listener and changes no DOM state; it logs one warning when a
\* console is available and nothing otherwise, and no later event on the
\* page makes the module write anything.
C20_MissingFormIsNoOp ==
    /\ [][InitWithoutForm =>
            /\ ~page'.threw
            /\ page'.listeners = page.listeners
            /\ page'.novalidate = page.novalidate
            /\ dom' = dom
            /\ successMessage' = successMessage
            /\ timeout' = timeout /\ resetTimers' = resetTimers
            /\ page'.log = IF page.hasConsole
                           THEN Append(page.log, "warn: Contact form not found")
                           ELSE page.log]_vars
    /\ [](~page.contactForm =>
            /\ ~page.threw
            /\ page.listeners = {}
            /\ ~page.novalidate
            /\ successMessage = <<>>
            /\ resetTimers = <<>>
            /\ \A i \in 1..Len(form) :
                /\ ~timeout[i]
                /\ dom.field[i] = [PristineField(form[i]) EXCEPT !.value = dom.field[i].value])

\* initFormValidation has run without #contact-form and logged its warning,
\* and the user has since typed an invalid name and left the control
C20_Witness ==
    /\ page.initialized
    /\ ~page.contactForm
    /\ page.log = <<"warn: Contact form not found">>
    /\ dom.field[1].value = J
    /\ lastEvent.type = "blur"

-----------------------------------------------------------------------------
(* Claims about the debounced re-validation, checked under SpecTimed *)

\* the step is taken by the 'input' handler and leaves the error state of every control alone
InputHandlerValidatesNothing ==
    lastEvent'.type = "input" =>
        /\ dom'.activeElement = dom.activeElement
        /\ \A i \in 1..Len(form) :
            /\ dom'.field[i] = [dom.field[i] EXCEPT !.value = dom'.field[i].value]
            /\ clock'.runs[i] <= clock.runs[i]

\* C11: a burst of 'input' events on one control, each less than 500 ms after
\* the previous one, is followed by at most one run of the debounced
\* re-validation, that run happens no sooner than 500 ms after the last
\* 'input' event of the burst, and the 'input' handler itself validates nothing.
C11_DebounceCancelAndReplace ==
    /\ [](\A i \in 1..Len(form) :
            /\ clock.runs[i] <= 1
            /\ Cardinality(clock.pending[i]) <= 1
            /\ (lastEvent.type = "debounce" /\ lastEvent.target = i) =>
                 clock.now >= clock.lastInput[i] + DEBOUNCE_WAIT)
    /\ [][InputHandlerValidatesNothing]_vars

\* a burst of three 'input' events has been followed by its one re-validation,
\* which displayed an error
C11_Witness ==
    /\ lastEvent.type = "debounce"
    /\ clock.burst[lastEvent.target] = MaxBurst
    /\ clock.runs[lastEvent.target] = 1
    /\ dom.field[lastEvent.target].fieldError

-----------------------------------------------------------------------------
(* Claims about focus and the listeners, checked under Spec *)

\* the rule-bearing controls whose present value fails validateField
InvalidControls == {i \in RuleBearing : ~FieldValid(i)}

\* C21: after a submit event on a form with an invalid rule-bearing control,
\* the focus is on the first control, in document order, whose value failed
\* validation.
C21_FocusOnFirstInvalid ==
    (lastEvent.type = "submit" /\ InvalidControls # {}) =>
        dom.activeElement = Min(InvalidControls)


\* control i shows no error state at all in DOM state d
ClearedIn(d, i) ==
    /\ d.field[i].ariaInvalid = "false"
    /\ d.field[i].ariaDescribedby = <<>>
    /\ ~d.field[i].fieldError
    /\ ~d.field[i].hasError
    /\ d.field[i].errorElement # <<>> =>
        (d.field[i].errorElement.textContent = "" /\ d.field[i].errorElement.display = "none")

\* C22: a 'focus' event on a rule-bearing control whose value is empty leaves
\* the control with no error state; one on a control that has a value leaves
\* its error message and every error marker as they were.
C22_FocusClearsOnlyWhenEmpty ==
    [][(lastEvent'.type = "focus" /\ HasRules(form[lastEvent'.target])) =>
         LET t == lastEvent'.target
         IN  IF dom.field[t].value = <<>>
             THEN ClearedIn(dom', t)
             ELSE dom'.field[t] = dom.field[t]]_vars

\* a control holding an invalid value has been focused and still displays its error
C22_Witness ==
    /\ lastEvent.type = "focus"
    /\ HasRules(form[lastEvent.target])
    /\ dom.field[lastEvent.target].value # <<>>
    /\ DisplaysError(lastEvent.target)


-----------------------------------------------------------------------------
(* Claims about the debounced validation of touched controls, checked under SpecTimed *)

\* control i carries, in DOM state d, every marker of the violation its value commits
ShownIn(d, i) ==
    LET fld == d.field[i]
        result == validateField(Element(form, d, i), FieldRulesLookup(form[i].name))
    IN  /\ ~result.isValid
        /\ fld.ariaInvalid = "true"
        /\ fld.errorElement # <<>>
        /\ fld.ariaDescribedby = fld.errorElement.id
        /\ fld.errorElement.textContent = result.error
        /\ fld.errorElement.display = "block"
        /\ fld.fieldError
        /\ fld.hasError

\* control i has neither a value nor a displayed error in DOM state d
Untouched(d, i) == d.field[i].value = <<>> /\ ~d.field[i].fieldError

\* C23: an 'input' event displays no error by itself; when the debounce timer
\* of a control fires, 500 ms or more after its last 'input' event, a control
\* that is empty and displays no error is left as it is, and a control that
\* has a value or displays an error is re-validated: its error is shown if
\* the value fails validation and cleared if it passes.
C23_DebouncedValidationWhenTouched ==
    [][ /\ lastEvent'.type = "input" =>
            \A i \in 1..Len(form) : ErrorState(dom', i) = ErrorState(dom, i)
        /\ \A i \in 1..Len(form) :
            clock'.runs[i] = clock.runs[i] + 1 =>
                /\ clock.now >= clock.lastInput[i] + DEBOUNCE_WAIT
                /\ IF Untouched(dom, i)
                   THEN dom' = dom
                   ELSE ShownIn(dom', i) \/
                        (validateField(Element(form, dom, i), FieldRulesLookup(form[i].name)).isValid
                            /\ ClearedIn(dom', i))
      ]_vars

\* the timer of a control that was edited and emptied again has fired and
\* nothing was validated
C23_Witness ==
    /\ lastEvent.type = "debounce"
    /\ clock.burst[lastEvent.target] >= 2
    /\ clock.runs[lastEvent.target] = 1
    /\ dom.field[lastEvent.target].value = <<>>
    /\ dom.field[lastEvent.target].ariaInvalid = "absent"


-----------------------------------------------------------------------------
(* Claims about the elements the module creates, checked under Spec *)

\* C24: whatever events and timers have happened, the container of every
\* control holds at most one '.error-message' element: none before the first
\* failure of the control, and after it the one showError created then.
C24_OneErrorElement ==
    \A i \in 1..Len(form) :
        /\ dom.field[i].errorElements <= 1
        /\ dom.field[i].errorElements = 1 <=> dom.field[i].errorElement # <<>>
        /\ dom.field[i].errorElement # <<>> =>
            /\ dom.field[i].errorElement.id = ErrorId(form[i])
            /\ dom.field[i].errorElement.role = "alert"

\* the debounced validation has shown the error of an emptied control: it
\* ran because the control already displayed an error, so this is a later
\* failure, shown in the element of the first one
C24_Witness ==
    /\ lastEvent.type = "debounce"
    /\ dom.field[lastEvent.target].value = <<>>
    /\ DisplaysError(lastEvent.target)
    /\ dom.field[lastEvent.target].errorElements = 1


\* C25: after a successful submit the form's parent holds exactly one
\* '.success-message' element, inserted before the form, with role='status'
\* and aria-live='polite', displayed and holding the acknowledgment text; and
\* at no time does the parent hold more than one.
C25_OneSuccessMessage ==
    /\ successMessage # <<>> => successMessage.elements = 1
    /\ (lastEvent.type = "submit" /\ lastEvent.isValid) =>
        /\ successMessage # <<>>
        /\ successMessage.insertedBefore = "form"
        /\ successMessage.role = "status"
        /\ successMessage.ariaLive = "polite"
        /\ successMessage.display = "block"
        /\ successMessage.textContent = "Thank you for your message! We will contact you soon."

\* a second successful submit has happened while the reset of the first was pending
C25_Witness ==
    /\ lastEvent.type = "submit"
    /\ lastEvent.isValid
    /\ Len(resetTimers) = 2
    /\ successMessage.elements = 1
    /\ successMessage.display = "block"


-----------------------------------------------------------------------------
(* Claims about the registered rule sets, checked under SpecVF *)

\* C26: among values that pass the required and pattern checks, a name
\* passes iff its trimmed length is in 2..100, an email iff its trimmed
\* length is at most 254 (a longer one fails with 'Email must not exceed 254
\* characters'), a tel-typed phone iff its digit count is in 10..20, and a
\* message iff its trimmed length is in 10..1000.
C26_InclusiveLengthBounds ==
    (Called /\ ~RequiredFails /\ ~PatternFails) =>
        /\ (vfRules = FIELD_RULES.name /\ vfField.type = "text") =>
            (vfResult.isValid <=> Len(TrimmedValue) \in 2..100)
        /\ (vfRules = FIELD_RULES.email /\ vfField.type = "email") =>
            /\ vfResult.isValid <=> Len(TrimmedValue) <= 254
            /\ Len(TrimmedValue) > 254 => vfResult = Fail("Email must not exceed 254 characters")
        /\ (vfRules = FIELD_RULES.phone /\ vfField.type = "tel") =>
            (vfResult.isValid <=> DigitCount(TrimmedValue) \in 10..20)
        /\ (vfRules = FIELD_RULES.message /\ vfField.type = "textarea") =>
            (vfResult.isValid <=> Len(TrimmedValue) \in 10..1000)

\* a well-formed address of exactly 254 characters has passed
C26_Witness ==
    /\ Called
    /\ vfRules = FIELD_RULES.email
    /\ vfField.type = "email"
    /\ ~PatternFails
    /\ Len(TrimmedValue) = 254
    /\ vfResult = Pass


\* C27: a name with accented letters, such as 'Jose Garcia' written with
\* e-acute and i-acute, matches the NAME pattern and is valid against the
\* name rule set.
C27_AccentedNameAccepted ==
    (Called /\ vfRules = FIELD_RULES.name /\ vfField.type = "text" /\ vfField.value = JoseGarcia) =>
        vfResult.isValid

\* the characters the claim lets a name hold
ClaimedNameCharacters == Lower \cup Upper \cup AccentedLetters \cup WhiteSpace \cup {"-", "'", "."}

\* C28: a non-empty name holding any character other than a letter,
\* whitespace, hyphen, apostrophe or period fails with the name pattern
\* message, whatever its length.
C28_NameRejectsOtherCharacters ==
    (/\ Called
     /\ vfRules = FIELD_RULES.name
     /\ TrimmedValue # <<>>
     /\ ~AllIn(TrimmedValue, ClaimedNameCharacters)) =>
        vfResult = Fail("Please enter a valid name (letters, spaces, hyphens, and apostrophes only)")

\* the script-injection string has been rejected as a name by the pattern
C28_Witness ==
    /\ Called
    /\ vfRules = FIELD_RULES.name
    /\ vfField.value = XssAttempt
    /\ vfResult = Fail("Please enter a valid name (letters, spaces, hyphens, and apostrophes only)")


\* a rule set has a message for every rule it holds
HasMessageForEveryRule(rules) ==
    /\ IsRequired(rules) => Has(rules.errorMessages, "required")
    /\ \A kind \in {"pattern", "minLength", "maxLength"} :
            Has(rules, kind) => Has(rules.errorMessages, kind)

\* C29: every registered rule set has a 'required' message when it is
\* required and a message for each of pattern, minLength and maxLength it
\* holds, and no failure validateField returns for a registered rule set
\* carries a missing message.
C29_RegisteredRuleSetsHaveMessages ==
    vfRules \in RegisteredRuleSets =>
        /\ HasMessageForEveryRule(vfRules)
        /\ (Called /\ ~vfResult.isValid) => vfResult.error \notin {Undefined, Null}

\* a message of 1001 characters has failed with the maxLength message of its rule set
C29_Witness ==
    /\ Called
    /\ vfRules = FIELD_RULES.message
    /\ vfField.type = "textarea"
    /\ Len(TrimmedValue) = 1001
    /\ vfResult = Fail(FIELD_RULES.message.errorMessages.maxLength)


-----------------------------------------------------------------------------
(* The exported tables and the writes of another script, where module.exports
   exists. Object.freeze freezes the object it is given and none of the
   objects its properties refer to: FIELD_RULES is frozen, each rule set and
   each errorMessages object is not. *)

\* the rule sets another script writes to, and what it writes
WrittenNames == {"name", "message"}
WrittenLength == 6
WrittenMessage == "changed"

\* obj[key] = v on an object that is not frozen
Assign(obj, key, v) == [k \in DOMAIN obj \cup {key} |-> IF k = key THEN v ELSE obj[k]]

\* the fields the calls of the specification validate
ExportedCallFields == {[value |-> v, type |-> "text"] : v \in {Empty, J, Short, JohnDoe}}

\* FIELD_RULES[n] = ruleSet by another script: FIELD_RULES is frozen, the write
\* is ignored, or throws a TypeError in strict code
WriteRuleSet(n) ==
    /\ \E outcome \in {"ignored", "TypeError"} :
            lastEvent' = [type |-> "write", target |-> <<n>>, outcome |-> outcome]
    /\ UNCHANGED <<otherModules, fieldRules, vfField, vfRules, vfResult, form, dom, timeout, successMessage,
                   resetTimers, clock, page>>

\* FIELD_RULES[n][key] = v by another script: the rule set is not frozen
WriteRule(n, key, v) ==
    /\ fieldRules' = [fieldRules EXCEPT ![n] = Assign(@, key, v)]
    /\ lastEvent' = [type |-> "write", target |-> <<n, key>>, outcome |-> "written"]
    /\ UNCHANGED <<otherModules, vfField, vfRules, vfResult, form, dom, timeout, successMessage,
                   resetTimers, clock, page>>

\* FIELD_RULES[n].errorMessages[kind] = msg by another script: errorMessages
\* is not frozen
WriteMessage(n, kind, msg) ==
    /\ fieldRules' = [fieldRules EXCEPT ![n].errorMessages = Assign(@, kind, msg)]
    /\ lastEvent' = [type |-> "write", target |-> <<n, "errorMessages", kind>>, outcome |-> "written"]
    /\ UNCHANGED <<otherModules, vfField, vfRules, vfResult, form, dom, timeout, successMessage,
                   resetTimers, clock, page>>

\* validateField(field, FIELD_RULES[n]) through module.exports
CallExportedValidateField(n, field) ==
    /\ vfField' = field
    /\ vfRules' = fieldRules[n]
    /\ vfResult' = validateField(field, fieldRules[n])
    /\ lastEvent' = [type |-> "validateField", target |-> n]
    /\ UNCHANGED <<otherModules, fieldRules, form, dom, timeout, successMessage, resetTimers, clock, page>>

InitExport == InitDom(FixtureForm) /\ NoCall

NextExport ==
    \/ \E n \in WrittenNames : WriteRuleSet(n)
    \/ \E n \in WrittenNames : WriteRule(n, "minLength", WrittenLength)
    \/ \E n \in WrittenNames : WriteRule(n, "required", FALSE)
    \/ \E n \in WrittenNames : WriteMessage(n, "minLength", WrittenMessage)
    \/ \E n \in WrittenNames, field \in ExportedCallFields : CallExportedValidateField(n, field)

SpecExport == InitExport /\ [][NextExport]_vars

\* C30: the tables are immutable: a write of another script to a table or to
\* a field of one of its rule sets changes nothing, so that every later call
\* validates against the rule set as the source defines it.
C30_TablesReadOnly ==
    lastEvent.type = "validateField" =>
        /\ vfRules = FIELD_RULES[lastEvent.target]
        /\ vfResult = validateField(vfField, FIELD_RULES[lastEvent.target])


-----------------------------------------------------------------------------
(* Claims about the agreement of the error markers, checked under Spec *)

\* the error element of control i's container exists, is displayed and has text
ErrorElementShown(i) ==
    IF dom.field[i].errorElement = <<>> THEN FALSE
    ELSE /\ dom.field[i].errorElement.display = "block"
         /\ dom.field[i].errorElement.textContent # ""

\* C31: the error markers of a rule-bearing control agree in every reachable
\* state: class 'field-error', aria-invalid='true', an aria-describedby
\* attribute, class 'has-error' on the container, and a displayed error
\* element with text are all present or all absent.
C31_ErrorMarkersAgree ==
    \A i \in RuleBearing :
        /\ dom.field[i].fieldError <=> dom.field[i].ariaInvalid = "true"
        /\ dom.field[i].fieldError <=> dom.field[i].ariaDescribedby # <<>>
        /\ dom.field[i].fieldError <=> dom.field[i].hasError
        /\ dom.field[i].fieldError <=> ErrorElementShown(i)

\* one control shows every marker while another, which showed them before,
\* shows none
C31_Witness ==
    \E i, j \in RuleBearing :
        /\ dom.field[i].fieldError /\ dom.field[i].hasError /\ ErrorElementShown(i)
        /\ dom.field[j].errorElement # <<>>
        /\ ~dom.field[j].fieldError /\ ~dom.field[j].hasError /\ ~ErrorElementShown(j)


-----------------------------------------------------------------------------
(* Claims about the debounce timers of several controls, checked under
   SpecTimedPair *)

\* everything the debounce closure and the error state of control j hold is
\* the same before and after the step
OtherControlUntouched(j) ==
    /\ timeout'[j] = timeout[j]
    /\ clock'.pending[j] = clock.pending[j]
    /\ dom'.field[j] = dom.field[j]

\* C32: each rule-bearing control has one pending debounce timer of its own
\* at most; an 'input' event on a control neither cancels, delays nor runs
\* the timer of another control, and a timer that fires writes the error
\* state of its own control only.
C32_DebouncePerField ==
    /\ [](\A i \in RuleBearing :
            /\ Cardinality(clock.pending[i]) <= 1
            /\ timeout[i] <=> clock.pending[i] # {})
    /\ [][\A i \in RuleBearing :
            (/\ lastEvent'.type \in {"input", "debounce"}
             /\ lastEvent'.target = i
             /\ clock'.now = clock.now) =>
                \A j \in 1..Len(form) \ {i} : OtherControlUntouched(j)]_vars

\* the timer of one control has fired and shown its error while the timer of
\* the other control, set earlier or later, is still pending
C32_Witness ==
    \E i, j \in RuleBearing :
        /\ i # j
        /\ lastEvent = [type |-> "debounce", target |-> i]
        /\ dom.field[i].fieldError
        /\ clock.pending[i] = {}
        /\ clock.pending[j] # {}
        /\ ~dom.field[j].fieldError


-----------------------------------------------------------------------------
(* Claims about the timers that are pending when the form is reset, checked
   under Spec *)

\* in DOM state d every control of the form is empty and shows no error state
AllEmptyAndCleared(d) ==
    \A i \in 1..Len(form) : d.field[i].value = <<>> /\ ClearedIn(d, i)

\* C33: when the reset timer has fired no control displays an error, and the
\* timers that fire afterwards, the debounce timers that were pending at the
\* reset among them, leave it so: an error is displayed again only by a
\* later blur, input, focus or submit event.
C33_NoErrorAfterReset ==
    /\ [](lastEvent.type = "resetTimer" => AllEmptyAndCleared(dom))
    /\ [][(AllEmptyAndCleared(dom) /\ lastEvent'.type \in {"debounce", "resetTimer"}) =>
                AllEmptyAndCleared(dom')]_vars

\* the reset timer has fired, clearing a displayed error, while the debounce
\* timer of a control is pending
C33_Witness ==
    /\ lastEvent.type = "resetTimer"
    /\ \E i \in RuleBearing : timeout[i] /\ dom.field[i].errorElement # <<>>
    /\ AllEmptyAndCleared(dom)


-----------------------------------------------------------------------------
(* The navigation module: its handlers as functions of its state *)

\* mutant: the menu is closed and the page stays locked
closeMobileMenuKeepsOverflow(n) ==
    IF ~n.isMenuOpen THEN n
    ELSE [n EXCEPT !.isMenuOpen = FALSE, !.ariaExpanded = "false", !.menuOpen = FALSE]

\* closeMobileMenu
closeMobileMenu(n) ==
    IF ~n.isMenuOpen THEN n
    ELSE [n EXCEPT !.isMenuOpen = FALSE, !.ariaExpanded = "false", !.menuOpen = FALSE,
                   !.overflow = ""]

\* handleMobileMenuToggle; trapFocus without an event focuses the first link
handleMobileMenuToggle(n) ==
    LET open == ~n.isMenuOpen
    IN  [n EXCEPT !.isMenuOpen = open,
                  !.ariaExpanded = IF open THEN "true" ELSE "false",
                  !.menuOpen = open,
                  !.activeElement = IF open THEN "first" ELSE "button",
                  !.overflow = IF open THEN "hidden" ELSE ""]

\* where the Tab key moves the focus when no handler prevents it
tabDefault(el, shiftKey) ==
    IF shiftKey
    THEN CASE el = "last" -> "first" [] el = "first" -> "button" [] OTHER -> "body"
    ELSE CASE el = "button" -> "first" [] el = "first" -> "last" [] OTHER -> "body"

\* trapFocus(element, event) of a Tab key, followed by the default action of
\* the key when the handler has not prevented it
trapFocus(n, shiftKey) ==
    IF shiftKey /\ n.activeElement = "first" THEN [n EXCEPT !.activeElement = "last"]
    ELSE IF ~shiftKey /\ n.activeElement = "last" THEN [n EXCEPT !.activeElement = "first"]
    ELSE [n EXCEPT !.activeElement = tabDefault(@, shiftKey)]

\* handleKeyboardNavigation
handleKeyboardNavigation(n, key, shiftKey) ==
    IF key = "Escape"
    THEN IF n.isMenuOpen THEN [closeMobileMenu(n) EXCEPT !.activeElement = "button"] ELSE n
    ELSE IF n.isMenuOpen THEN trapFocus(n, shiftKey)
         ELSE [n EXCEPT !.activeElement = tabDefault(@, shiftKey)]

\* handleOutsideClick; a click on the button does not reach the document
\* (stopPropagation in handleMobileMenuToggle)
handleOutsideClick(n, insideMenu) ==
    IF ~n.isMenuOpen \/ insideMenu THEN n ELSE closeMobileMenu(n)

\* handleResize
handleResize(n) ==
    IF n.innerWidth > mobileBreakpoint /\ n.isMenuOpen THEN closeMobileMenu(n) ELSE n

\* smoothScrollTo up to its requestAnimationFrame
smoothScrollTo(n, target) ==
    [n EXCEPT !.isScrolling = TRUE,
              !.animations = @ \cup {[start |-> n.now, target |-> target]}]

\* handleNavLinkClick on the link to '#' + link
handleNavLinkClick(n, link) ==
    IF link \notin Sections THEN n
    ELSE [smoothScrollTo(closeMobileMenu(n), link) EXCEPT
                !.linkTimers = @ \cup {[link |-> link, due |-> n.now + scrollDuration]}]

\* handleScroll
handleScroll(n) ==
    IF n.isScrolling THEN n ELSE [n EXCEPT !.scrollTimeout = TRUE]

\* updateActiveNavigation: currentSection is the last section the position lies in
updateActiveNavigation(n) ==
    IF n.position # Null /\ n.position # n.activeSection
    THEN [n EXCEPT !.activeSection = n.position,
                   !.ariaCurrent = {l \in LinkTargets : l = n.position}]
    ELSE n

\* updateActiveLink
updateActiveLink(n, link) == [n EXCEPT !.ariaCurrent = {link}, !.activeSection = link]

\* mutant: the animation requests a frame whatever time has elapsed
animationNeverDone(n, a, pos) == [n EXCEPT !.position = pos]

\* one call of `animation` of the smooth scroll a at the present time: the
\* position it scrolls to lies in any section or in none
animation(n, a, pos) ==
    IF n.now - a.start < scrollDuration
    THEN [n EXCEPT !.position = pos]
    ELSE [n EXCEPT !.position = pos, !.animations = @ \ {a}, !.isScrolling = FALSE]

\* one animation frame: the callbacks requested for it, those of the set
\* callbacks, run one after the other at the same time; a callback that
\* requests a frame requests the next one
RECURSIVE runAnimationCallbacks(_, _, _)
runAnimationCallbacks(n, callbacks, pos) ==
    IF callbacks = {} THEN n
    ELSE LET a == CHOOSE c \in callbacks : \A d \in callbacks : c.start <= d.start
         IN  runAnimationCallbacks(animation(n, a, pos), callbacks \ {a}, pos)

\* init: the markup has the nav, its list and its links; the page is loaded
\* at any scroll position
init(n, pos) ==
    updateActiveNavigation([n EXCEPT !.ariaExpanded = "false", !.position = pos,
                                     !.initialized = TRUE])

-----------------------------------------------------------------------------
(* The navigation module: events *)

MaxNavTime == 1600
NavTickStep == 400
MaxAnimations == 2

Positions == Sections \cup {Null}

RunNavInit ==
    /\ ~nav.initialized
    /\ \E pos \in Positions : nav' = init(nav, pos)
    /\ UNCHANGED <<formVars, throttled, lazy>>

ToggleClick ==
    /\ nav.initialized
    /\ nav' = handleMobileMenuToggle(nav)
    /\ UNCHANGED <<formVars, throttled, lazy>>

KeyDown(key, shiftKey) ==
    /\ nav.initialized
    /\ nav' = handleKeyboardNavigation(nav, key, shiftKey)
    /\ UNCHANGED <<formVars, throttled, lazy>>

\* a click that is neither on the button nor on a nav link
DocumentClick(insideMenu) ==
    /\ nav.initialized
    /\ nav' = handleOutsideClick(nav, insideMenu)
    /\ UNCHANGED <<formVars, throttled, lazy>>

\* a click on a nav link; it bubbles to the document from inside the menu
NavLinkClick(link) ==
    /\ nav.initialized
    /\ nav.now + scrollDuration <= MaxNavTime
    /\ Cardinality(nav.animations) < MaxAnimations
    /\ Cardinality(nav.linkTimers) < MaxAnimations
    /\ nav' = handleOutsideClick(handleNavLinkClick(nav, link), TRUE)
    /\ UNCHANGED <<formVars, throttled, lazy>>

\* the window is resized; the throttled handleResize runs
Resize(width) ==
    /\ nav.initialized
    /\ nav' = handleResize([nav EXCEPT !.innerWidth = width])
    /\ UNCHANGED <<formVars, throttled, lazy>>

\* the user scrolls to a position; the throttled handleScroll runs
ScrollEvent(pos) ==
    /\ nav.initialized
    /\ nav' = handleScroll([nav EXCEPT !.position = pos])
    /\ UNCHANGED <<formVars, throttled, lazy>>

\* the timer of handleScroll fires
ScrollTimeoutFire ==
    /\ nav.scrollTimeout
    /\ nav' = updateActiveNavigation([nav EXCEPT !.scrollTimeout = FALSE])
    /\ UNCHANGED <<formVars, throttled, lazy>>

\* a timer of handleNavLinkClick that is due fires
LinkTimerFire ==
    /\ \E t \in nav.linkTimers :
        /\ nav.now >= t.due
        /\ nav' = [updateActiveLink(nav, t.link) EXCEPT !.linkTimers = @ \ {t},
                                                        !.activeElement = "target"]
    /\ UNCHANGED <<formVars, throttled, lazy>>

\* an animation frame is delivered: every smooth scroll with a frame requested runs
Frame ==
    /\ nav.animations # {}
    /\ \E pos \in Positions : nav' = runAnimationCallbacks(nav, nav.animations, pos)
    /\ UNCHANGED <<formVars, throttled, lazy>>

NavTick ==
    /\ nav.initialized
    /\ nav.now + NavTickStep <= MaxNavTime
    /\ nav' = [nav EXCEPT !.now = @ + NavTickStep]
    /\ UNCHANGED <<formVars, throttled, lazy>>

InitNav == InitDom(FixtureForm) /\ NoCall

\* the events of the mobile menu
NextNavMenu ==
    \/ RunNavInit
    \/ ToggleClick
    \/ \E key \in {"Escape", "Tab"}, shiftKey \in BOOLEAN : KeyDown(key, shiftKey)
    \/ \E insideMenu \in BOOLEAN : DocumentClick(insideMenu)
    \/ \E link \in LinkTargets : NavLinkClick(link)
    \/ \E width \in {NarrowWidth, WideWidth} : Resize(width)
    \/ LinkTimerFire
    \/ NavTick

SpecNavMenu == InitNav /\ [][NextNavMenu]_vars

\* the events of scrolling and of the active section
NextNavScroll ==
    \/ RunNavInit
    \/ \E link \in LinkTargets : NavLinkClick(link)
    \/ \E pos \in Positions : ScrollEvent(pos)
    \/ ScrollTimeoutFire
    \/ LinkTimerFire
    \/ Frame
    \/ NavTick

SpecNavScroll == InitNav /\ [][NextNavScroll]_vars

\* the same, the time passing, animation frames being delivered and due timers running
SpecNavScrollFair ==
    /\ InitNav /\ [][NextNavScroll]_vars
    /\ WF_vars(NavTick) /\ WF_vars(Frame) /\ WF_vars(LinkTimerFire) /\ WF_vars(ScrollTimeoutFire)


-----------------------------------------------------------------------------
(* Claims about the mobile menu, checked under SpecNavMenu *)

\* C34: once init has created the toggle button, state.isMenuOpen, the class
\* 'menu-open' of the nav list, aria-expanded='true' of the button and
\* overflow 'hidden' of the body are all true or all false, after any toggle
\* click, Escape or Tab key, outside click, nav-link click and resize.
C34_MenuStateAgrees ==
    nav.initialized =>
        /\ nav.isMenuOpen <=> nav.menuOpen
        /\ nav.isMenuOpen <=> nav.ariaExpanded = "true"
        /\ nav.isMenuOpen <=> nav.overflow = "hidden"

\* the menu has been closed by a nav-link click and opened again
C34_Witness ==
    /\ nav.initialized
    /\ nav.linkTimers # {}
    /\ nav.isMenuOpen /\ nav.menuOpen /\ nav.ariaExpanded = "true" /\ nav.overflow = "hidden"


-----------------------------------------------------------------------------
(* throttle(func, delay): the wrapper of the scroll listener, delay being
   config.scrollThrottleDelay *)

MaxCalls == 4
MaxThrottleTime == 1300
ThrottleTickStep == 50

\* mutant: a call that comes before the delay has passed is dropped
throttledNoTrailing(t, args) ==
    IF t.now - t.lastCall >= scrollThrottleDelay
    THEN [t EXCEPT !.lastCall = t.now,
                   !.invocations = Append(@, [at |-> t.now, args |-> args]),
                   !.calls = @ + 1, !.lastCallAt = t.now]
    ELSE [t EXCEPT !.calls = @ + 1, !.lastCallAt = t.now]

\* `throttled` called with the arguments args at the time t.now
throttledWrapper(t, args) ==
    IF t.now - t.lastCall >= scrollThrottleDelay
    THEN [t EXCEPT !.lastCall = t.now,
                   !.invocations = Append(@, [at |-> t.now, args |-> args]),
                   !.calls = @ + 1, !.lastCallAt = t.now]
    ELSE [t EXCEPT !.timer = [ due  |-> t.now + (scrollThrottleDelay - (t.now - t.lastCall)),
                               args |-> args ],
                   !.calls = @ + 1, !.lastCallAt = t.now]

\* the callback of the wrapper's setTimeout
trailingCallback(t) ==
    [t EXCEPT !.lastCall = t.now,
              !.invocations = Append(@, [at |-> t.now, args |-> t.timer.args]),
              !.timer = <<>>]

\* an event calls the wrapper; call k carries the arguments k
ThrottledCall ==
    /\ throttled.calls < MaxCalls
    /\ throttled.now + scrollThrottleDelay <= MaxThrottleTime
    /\ throttled' = throttledWrapper(throttled, throttled.calls + 1)
    /\ UNCHANGED <<formVars, nav, lazy>>

\* the trailing timer runs: never early, it may run late
TrailingTimerFire ==
    /\ throttled.timer # <<>>
    /\ throttled.now >= throttled.timer.due
    /\ throttled' = trailingCallback(throttled)
    /\ UNCHANGED <<formVars, nav, lazy>>

ThrottleTick ==
    /\ throttled.now + ThrottleTickStep <= MaxThrottleTime
    /\ throttled' = [throttled EXCEPT !.now = @ + ThrottleTickStep]
    /\ UNCHANGED <<formVars, nav, lazy>>

InitThrottle == InitDom(FixtureForm) /\ NoCall

NextThrottle ==
    \/ ThrottledCall
    \/ TrailingTimerFire
    \/ ThrottleTick

\* the time passes and a timer that is due runs
SpecThrottle ==
    InitThrottle /\ [][NextThrottle]_vars /\ WF_vars(TrailingTimerFire) /\ WF_vars(ThrottleTick)

-----------------------------------------------------------------------------
(* Claims about throttle, checked under SpecThrottle *)

\* C35: two calls of the wrapped function are never less than the delay apart.
C35_ThrottleMinimumSpacing ==
    \A i \in 1..(Len(throttled.invocations) - 1) :
        throttled.invocations[i + 1].at - throttled.invocations[i].at >= scrollThrottleDelay

\* the wrapped function has been called with the arguments of call k, at or
\* after the time of the last call of the wrapper
InvokedWith(k) ==
    \E i \in 1..Len(throttled.invocations) :
        /\ throttled.invocations[i].args = k
        /\ throttled.invocations[i].at >= throttled.lastCallAt

\* C36: the last call of the wrapper is not lost: the wrapped function has
\* been called with its arguments, or the pending trailing timer carries
\* them, and unless a later call comes the wrapped function is eventually
\* called with them, at or after the time of that call.
C36_ThrottleKeepsLastCall ==
    /\ [](throttled.calls > 0 =>
            \/ InvokedWith(throttled.calls)
            \/ (throttled.timer # <<>> /\ throttled.timer.args = throttled.calls))
    /\ \A k \in 1..MaxCalls :
            (throttled.calls = k) ~> (throttled.calls # k \/ InvokedWith(k))

\* the last call came before the delay had passed and the trailing timer has
\* called the wrapped function with its arguments
C36_Witness ==
    /\ throttled.calls > 1
    /\ throttled.timer = <<>>
    /\ \E i \in 1..Len(throttled.invocations) :
            /\ throttled.invocations[i].args = throttled.calls
            /\ throttled.invocations[i].at > throttled.lastCallAt


-----------------------------------------------------------------------------
(* Claims about the smooth scroll, checked under SpecNavScroll and
   SpecNavScrollFair *)

\* C37: state.isScrolling is true as long as a smooth scroll has a frame
\* requested, a second one started before the first has finished included,
\* so that handleScroll schedules no update during a programmatic scroll.
C37_ScrollingWhileAnimating ==
    nav.animations # {} => (nav.isScrolling /\ handleScroll(nav) = nav)

\* the times at which the model can start a smooth scroll
StartTimes == {k * NavTickStep : k \in 0..((MaxNavTime - scrollDuration) \div NavTickStep)}

\* a smooth scroll started at time t has a frame requested
InProgress(t) == \E a \in nav.animations : a.start = t

\* C38: a smooth scroll stops requesting frames, and not before
\* scrollDuration has elapsed; state.isScrolling becomes false again, it is
\* false whenever no smooth scroll is in progress, and a scroll event then
\* schedules an update of the active section.
C38_SmoothScrollTerminates ==
    /\ \A t \in StartTimes : InProgress(t) ~> ~InProgress(t)
    /\ nav.isScrolling ~> ~nav.isScrolling
    /\ [][\A a \in nav.animations : a \notin nav'.animations => nav.now - a.start >= scrollDuration]_vars
    /\ [](nav.animations = {} => (~nav.isScrolling /\ handleScroll(nav).scrollTimeout))

\* a smooth scroll started by a nav-link click has run to its end
C38_Witness ==
    /\ nav.linkTimers # {}
    /\ nav.now >= scrollDuration
    /\ nav.animations = {}
    /\ ~nav.isScrolling

-----------------------------------------------------------------------------
(* Claims about the active section, checked under SpecNavScroll *)

\* C39: from the end of init on, a nav link has aria-current='page' exactly
\* when its target is state.activeSection.
C39_AriaCurrentIsActiveSection ==
    nav.initialized => \A l \in LinkTargets : l \in nav.ariaCurrent <=> l = nav.activeSection


-----------------------------------------------------------------------------
(* Lazy loading of the performance module *)

\* the image has a non-empty data-src or data-srcset
HasSource(img) == img # "nosrc"

\* loadImage
loadImage(z, img) ==
    IF img \in z.loadedImages \/ ~HasSource(img) THEN z
    ELSE [z EXCEPT !.assigned[img] = @ + 1, !.loading = @ \cup {img}]

\* mutant: an intersecting image is loaded and stays observed and pending
handleEntryKeepsObserving(z, entry) ==
    IF entry.isIntersecting
    THEN [loadImage(z, entry.target) EXCEPT !.handed[entry.target] = @ + 1]
    ELSE z

\* handleIntersection: the body of its forEach for one entry
handleEntry(z, entry) ==
    IF entry.isIntersecting
    THEN [loadImage(z, entry.target) EXCEPT !.handed[entry.target] = @ + 1,
                                            !.observing = @ \ {entry.target},
                                            !.pending = @ \ {entry.target}]
    ELSE z

\* handleIntersection
RECURSIVE handleIntersection(_, _)
handleIntersection(z, entries) ==
    IF entries = <<>> THEN z
    ELSE handleIntersection(handleEntry(z, Head(entries)), Tail(entries))

\* loadImage for each image of the set, in document order
RECURSIVE loadAll(_, _)
loadAll(z, images) ==
    IF images = {} THEN z
    ELSE LET img == CHOOSE i \in images : TRUE
         IN  loadAll(loadImage(z, img), images \ {img})

\* initializeLazyLoading, with or without 'IntersectionObserver' in window
initializeLazyLoading(z, hasObserver) ==
    IF hasObserver
    THEN [z EXCEPT !.initialized = TRUE, !.observer = "IntersectionObserver",
                   !.pending = Images, !.observing = Images]
    ELSE [loadAll(z, Images) EXCEPT !.initialized = TRUE]

RunInitializeLazyLoading ==
    /\ ~lazy.initialized
    /\ \E hasObserver \in BOOLEAN : lazy' = initializeLazyLoading(lazy, hasObserver)
    /\ UNCHANGED <<formVars, nav, throttled>>

\* the observer looks at an image it observes for the first time, or finds
\* that it has begun or ceased to intersect, and queues an entry; it delivers
\* its entries before it observes again, so it queues one entry for a target
\* at most
IntersectionChange(img, isIntersecting) ==
    /\ img \in lazy.observing
    /\ img \notin lazy.reported \/ isIntersecting # lazy.intersecting[img]
    /\ \A k \in 1..Len(lazy.queue) : lazy.queue[k].target # img
    /\ lazy' = [lazy EXCEPT !.intersecting[img] = isIntersecting,
                            !.reported = @ \cup {img},
                            !.queue = Append(@, [ target |-> img,
                                                  isIntersecting |-> isIntersecting ])]
    /\ UNCHANGED <<formVars, nav, throttled>>

\* the observer calls handleIntersection with the entries it has queued
ObserverCallback ==
    /\ lazy.queue # <<>>
    /\ lazy' = [handleIntersection(lazy, lazy.queue) EXCEPT !.queue = <<>>]
    /\ UNCHANGED <<formVars, nav, throttled>>

\* img.onload
ImageLoaded(img) ==
    /\ img \in lazy.loading
    /\ lazy' = [lazy EXCEPT !.loading = @ \ {img}, !.loadedImages = @ \cup {img}]
    /\ UNCHANGED <<formVars, nav, throttled>>

\* img.onerror
ImageFailed(img) ==
    /\ img \in lazy.loading
    /\ lazy' = [lazy EXCEPT !.loading = @ \ {img}]
    /\ UNCHANGED <<formVars, nav, throttled>>

InitLazy == InitDom(FixtureForm) /\ NoCall

NextLazy ==
    \/ RunInitializeLazyLoading
    \/ \E img \in Images, isIntersecting \in BOOLEAN : IntersectionChange(img, isIntersecting)
    \/ ObserverCallback
    \/ \E img \in Images : ImageLoaded(img)
    \/ \E img \in Images : ImageFailed(img)

SpecLazy == InitLazy /\ [][NextLazy]_vars

-----------------------------------------------------------------------------
(* Claims about lazy loading, checked under SpecLazy *)

=============================================================================
